---- MODULE Spec2Model ----
(***************************************************************************)
(* kalibrate-hydrasdr: the magic ring buffer (circular_buffer.cc) and the  *)
(* producer/consumer hand-off of hydrasdr_source (hydrasdr_source.cc).     *)
(*                                                                         *)
(* RingSpec   : one circular_buffer driven by arbitrary sequences of       *)
(*              write / read / peek / purge / flush calls.                 *)
(* SourceSpec : the driver callback (producer thread) and fill / peek /    *)
(*              purge / flush (consumer thread) of one hydrasdr_source.    *)
(*                                                                         *)
(* Memory is modelled byte by byte.  Byte j of the item with value v is    *)
(* the pair <<v, j>>, so an item read at a wrong byte alignment, or an     *)
(* item assembled from two different writes, is visible as such.           *)
(***************************************************************************)
EXTENDS Integers, Sequences, FiniteSets, TLC

VARIABLES
    cb,         \* the circular_buffer object (record of its members), or NoRing
    crashed,    \* TRUE once a memcpy ran past the 2*S mapping and faulted
    op,         \* name of the last completed (or faulting) ring call
    arg,        \* its len argument
    ret,        \* its return value (peek: the count stored through *len)
    ptr,        \* peek: the returned address, as a byte offset from m_buf
    dst,        \* read: the items copied out; peek: the items seen at ptr
    nxt,        \* value of the next fresh item a writer will offer
    fifo,       \* history: accepted items not yet consumed, oldest first
    \* ---- hydrasdr_source ----
    dev,        \* device handle is non-NULL
    rx,         \* the driver delivers transfers (between start_rx and stop_rx)
    streaming,  \* std::atomic<bool> streaming
    m_overflow_count,   \* std::atomic<unsigned int>
    data_mutex, \* owner of hydrasdr_source::data_mutex, or "free"
    m_mutex,    \* owner of the ring's circular_buffer::m_mutex, or "free"
    g_kal_exit_req,     \* the exit flag set by the signal handler
    ppc,        \* producer (driver thread): position in fill_buffer_callback
    produced,   \* producer: count returned by the resampler
    m_batch_buffer,     \* producer: the resampled samples
    written,    \* producer: count returned by cb->write
    cpc,        \* consumer thread: position in the call it is executing
    after,      \* consumer: where start() returns to
    num_samples,        \* consumer: fill's argument
    seen,       \* consumer: what fill's last load of streaming returned
    zeroed,     \* history: what in this fill set a non-zero overflow counter to 0
    fill_ret,   \* consumer: <<r>> once fill has returned r, <<>> before
    overruns_out,       \* consumer: <<v>> once fill stored v through overruns
    held,       \* consumer: it is using the span a peek returned
    b_ptr,      \* consumer: address returned by peek (offset from m_buf)
    b_len,      \* consumer: count returned by peek
    span_i,     \* consumer: items of the span it has read so far
    prev,       \* history: value of the newest sample the consumer was done with
    m_center_freq,      \* hydrasdr_source::m_center_freq
    m_resampler,        \* m_resampler's filter history: "reset" or "history"
    tune_ret,   \* consumer: <<r>> once the last tune has returned r
    freq,       \* consumer: tune's argument
    tuned,      \* history: the first sample resampled after the last retune
    flushed,    \* history: u->flush() has emptied the ring since that retune
                \* and fill has not been called since
    exited,     \* the process has called _exit
    signals,    \* history: how many signals were delivered
    dpc,        \* scan driver: position in c0_detect / offset_detect
    result,     \* scan driver: <<r>> once it has returned r
    bi,         \* c0_detect: the band indicator it was called with
    arfcn,      \* c0_detect: the channel i
    power,      \* c0_detect: power[], by channel
    thresh,     \* c0_detect: the threshold a, as <<sum, len>> of avg
    found_count,        \* c0_detect
    notfound_count,     \* c0_detect
    count,      \* offset_detect
    iterations, \* offset_detect
    offsets,    \* offset_detect: offsets[], by index
    observed,   \* history: the driver has read the exit flag as set
    attempted,  \* history: the channels pass 2 has tuned to
    min_offset, \* c0_detect: lowest effective offset of a found channel
    max_offset, \* c0_detect: highest effective offset of a found channel
    notfound,   \* offset_detect: scans that found no FCCH
    report,     \* offset_detect: <<what the analysis printed>>, <<>> before
    \* ---- fcch_detector ----
    spc,        \* position in scan, "idle" between calls
    s_len,      \* scan: its argument
    stale,      \* history: the samples the sample ring held when scan was called
    s_done,     \* scan: len, the samples written to the sample ring so far
    m_x_cb,     \* the sample ring: how many samples it holds
    m_y_cb,     \* the output ring: how many samples it holds
    m_e_cb,     \* the error ring: the normalised errors it holds
    e_batch,    \* scan: e_batch[0 .. e_idx)
    e_sum,      \* scan: sum
    m_w,        \* the weight vector: updates made to it, modulo Updates
    m_e,        \* the running error power: updates made to it, likewise
    m_G,        \* the gain: "G" as constructed, "1/E" once normalised
    m_lth_count,        \* edge detector
    m_lth_state,        \* edge detector: LOW or HIGH
    e_i,        \* scan: the index i into the error ring
    l_count,    \* scan: what low_to_high returned last
    pm,         \* scan: the peak-to-mean ratio
    loff,       \* scan: the frequency freq_detect returned last
    evaluated,  \* history: the regions this scan gave to freq_detect
    scan_ret,   \* <<r>> once scan has returned r
    offset_out, \* <<f>> once scan stored f through offset
    consumed_out,       \* <<n>> once scan stored n through consumed
    nne_ret     \* <<r>> once next_norm_error has returned r to this scan

ringvars == <<cb, crashed, op, arg, ret, ptr, dst, nxt, fifo>>

callvars == <<crashed, op, arg, ret, ptr, dst, fifo>>

srcvars == <<dev, rx, streaming, m_overflow_count, data_mutex, m_mutex,
             g_kal_exit_req, ppc, produced, m_batch_buffer, written,
             cpc, after, num_samples, seen, zeroed, fill_ret, overruns_out,
             held, b_ptr, b_len, span_i, prev>>

tunevars == <<m_center_freq, m_resampler, tune_ret, freq, tuned, flushed>>

sigvars == <<exited, signals>>

foundvars == <<min_offset, max_offset>>

c0vars == <<bi, arfcn, power, thresh, found_count, notfound_count, attempted,
            foundvars>>

offvars == <<count, iterations, offsets, notfound, report>>

drvvars == <<sigvars, dpc, result, observed, c0vars, offvars>>

detvars == <<spc, s_len, stale, s_done, m_x_cb, m_y_cb, m_e_cb, e_batch, e_sum, m_w, m_e,
             m_G, m_lth_count, m_lth_state, e_i, l_count, pm, loff, evaluated,
             scan_ret, offset_out, consumed_out, nne_ret>>

vars == <<ringvars, srcvars, tunevars, drvvars, detvars>>

----------------------------------------------------------------------------
(* Bounds of the model *)

\* largest buf_len handed to the constructor
MaxBufLen == 2
\* largest len handed to write / read / purge
MaxLen == 5
\* number of distinct item values a run may offer to write
MaxSeq == 6

\* item sizes handed to the constructor (bytes)
ItemSizes == {1, 2, 3}

\* samples the resampler returns over a whole run
MaxSamples == 3
\* the driver reports dropped samples only while the overflow counter stays
\* at or below this
MaxOverflow == 1

----------------------------------------------------------------------------
(* Helpers *)

MIN(a, b) == IF a < b THEN a ELSE b

SetMax(S) == CHOOSE x \in S : \A y \in S : y <= x

SetMin(S) == CHOOSE x \in S : \A y \in S : x <= y

NoRing == [m_buf_size |-> 0]

\* Arithmetic on unsigned int wraps.  UINT_MAX + 1 is 2^32, beyond the integers
\* the model checker has, so the model wraps at 2^30: every size in the model
\* is below 2^6, no sum or product comes near either modulus, and the one
\* effect that matters is kept: a difference below zero becomes a huge value.
UIntMod == 1073741824

USub(a, b) == (a - b + UIntMod) % UIntMod

UAdd(a, b) == (a + b) % UIntMod

\* sysconf(_SC_PAGESIZE), scaled down (a power of two, as on every platform)
PageSize == 4

\* the file behind the mapping is extended by ftruncate: all bytes zero
ZeroByte == <<0, 0>>

\* what a load from an address outside both mappings is taken to yield
Unmapped == <<-1, -1>>

\* byte k of the caller's array s of items of isz bytes each
SrcByte(s, isz, k) == <<s[(k \div isz) + 1], k % isz>>

\* the isz bytes of one item of value v
ItemBytes(v, isz) == [j \in 1..isz |-> <<v, j - 1>>]

----------------------------------------------------------------------------
(* circular_buffer *)

\* (raw_size + page_size - 1) & ~(page_size - 1): round up to a page multiple
RoundUpPage(raw_size) == ((raw_size + PageSize - 1) \div PageSize) * PageSize

circular_buffer(buf_len, item_size, overwrite) ==
    LET raw_size == item_size * buf_len
        buf_size == RoundUpPage(raw_size)
    IN  [ m_item_size |-> item_size,
          m_overwrite |-> overwrite,
          m_buf_size  |-> buf_size,
          m_buf_len   |-> buf_size \div item_size,
          m_buf       |-> [p \in 0..(buf_size - 1) |-> ZeroByte],
          m_r         |-> 0,
          m_w         |-> 0 ]

\* mutant: the second mapping is private zero pages, not the file again
Virt_NoAlias(c, a) ==
    IF a < c.m_buf_size THEN c.m_buf[a]
    ELSE IF a < 2 * c.m_buf_size THEN ZeroByte
    ELSE Unmapped

\* The two mappings of the same file: the first maps file bytes 0..S-1 at
\* m_buf, the second maps the same file bytes at m_buf + S.  m_buf is the
\* file's content; Virt is the byte seen at virtual offset a (0 <= a < 2*S).
Virt(c, a) ==
    IF a < c.m_buf_size THEN c.m_buf[a]
    ELSE IF a < 2 * c.m_buf_size THEN c.m_buf[a - c.m_buf_size]
    ELSE Unmapped

\* the item of isz bytes found at virtual byte offset a
ItemAt(c, a) == [j \in 1..c.m_item_size |-> Virt(c, a + j - 1)]

\* n consecutive items starting at virtual byte offset a
Span(c, a, n) == [i \in 1..n |-> ItemAt(c, a + (i - 1) * c.m_item_size)]

data_available(c) ==
    LET bytes_avail == USub(c.m_w, c.m_r)
    IN  bytes_avail \div c.m_item_size

space_available(c) ==
    LET bytes_avail == USub(c.m_w, c.m_r)
        space_bytes == USub(c.m_buf_size, bytes_avail)
    IN  space_bytes \div c.m_item_size

capacity(c) == c.m_buf_len

flush(c) == [c EXCEPT !.m_r = 0, !.m_w = 0]

\* mutant: only the read cursor is wound back
Normalise_KeepW(c) ==
    IF c.m_r >= c.m_buf_size /\ c.m_w >= c.m_buf_size
    THEN [c EXCEPT !.m_r = USub(c.m_r, c.m_buf_size)]
    ELSE c

\* if (m_r >= m_buf_size && m_w >= m_buf_size) { m_r -= ...; m_w -= ...; }
Normalise(c) ==
    IF c.m_r >= c.m_buf_size /\ c.m_w >= c.m_buf_size
    THEN [c EXCEPT !.m_r = USub(c.m_r, c.m_buf_size),
                   !.m_w = USub(c.m_w, c.m_buf_size)]
    ELSE c

\* mutant: the cap at the free space is missing
ToWrite_NoCap(c, len) == len

\* write: the number of items taken from the caller
ToWrite(c, len) ==
    LET bytes_used == USub(c.m_w, c.m_r)
        bytes_free == USub(c.m_buf_size, bytes_used)
        items_free == bytes_free \div c.m_item_size
    IN  IF c.m_overwrite = 0 /\ len > items_free THEN items_free ELSE len

\* write: unsigned int offset = m_w % m_buf_size
WriteOffset(c) == c.m_w % c.m_buf_size

\* write: the memcpy leaves the 2*S bytes mapped at m_buf (undefined behaviour)
Overrun(c, len) ==
    ToWrite(c, len) > 0
    /\ WriteOffset(c) + ToWrite(c, len) * c.m_item_size > 2 * c.m_buf_size

\* write: the memcpy has two destination bytes on one physical byte
Aliased(c, len) == ToWrite(c, len) * c.m_item_size > c.m_buf_size

\* memcpy(m_buf + offset, s, nbytes).  Destination bytes S apart are the same
\* physical byte; which store lands last depends on the order the library
\* copies in ("asc": ascending addresses, "desc": descending).  Bytes past
\* the mapping are not part of the ring.
MemcpyIn(c, offset, s, nbytes, order) ==
    [p \in 0..(c.m_buf_size - 1) |->
        LET ks == {k \in 0..(nbytes - 1) :
                      /\ offset + k < 2 * c.m_buf_size
                      /\ (offset + k) % c.m_buf_size = p}
        IN  IF ks = {} THEN c.m_buf[p]
            ELSE SrcByte(s, c.m_item_size,
                         IF order = "asc" THEN SetMax(ks) ELSE SetMin(ks))]

\* mutant: the read cursor is not moved up behind the write cursor
DropOldest_Never(c) == c

\* write: if (m_overwrite && (m_w - m_r) > m_buf_size) m_r = m_w - m_buf_size
DropOldest(c) ==
    IF c.m_overwrite # 0 /\ USub(c.m_w, c.m_r) > c.m_buf_size
    THEN [c EXCEPT !.m_r = USub(c.m_w, c.m_buf_size)]
    ELSE c

write(c, s, len, order) ==
    LET to_write == ToWrite(c, len)
        c1 == IF to_write > 0
              THEN [c EXCEPT
                      !.m_buf = MemcpyIn(c, WriteOffset(c), s,
                                         to_write * c.m_item_size, order),
                      !.m_w = UAdd(c.m_w, to_write * c.m_item_size)]
              ELSE c
    IN  [cb |-> Normalise(DropOldest(c1)), ret |-> to_write]

\* mutant: the request is not cut down to what is buffered
ToRead_NoMin(c, len) == len

\* read / purge: MIN(len, items_avail)
ToRead(c, len) ==
    LET bytes_avail == USub(c.m_w, c.m_r)
        items_avail == bytes_avail \div c.m_item_size
    IN  MIN(len, items_avail)

\* mutant: the cursor is reduced modulo the item count, not the byte count
ReadOffset_ModLen(c) == c.m_r % c.m_buf_len

\* read / peek: unsigned int offset = m_r % m_buf_size
ReadOffset(c) == c.m_r % c.m_buf_size

read(c, len) ==
    LET to_read == ToRead(c, len)
        c1 == IF to_read > 0
              THEN [c EXCEPT !.m_r = UAdd(c.m_r, to_read * c.m_item_size)]
              ELSE c
    IN  [cb  |-> Normalise(c1),
         ret |-> to_read,
         s   |-> Span(c, ReadOffset(c), to_read)]

peek(c) ==
    LET bytes_avail == USub(c.m_w, c.m_r)
    IN  [len |-> bytes_avail \div c.m_item_size, ptr |-> ReadOffset(c)]

purge(c, len) ==
    LET to_purge == ToRead(c, len)
        c1 == [c EXCEPT !.m_r = UAdd(c.m_r, to_purge * c.m_item_size)]
    IN  [cb |-> Normalise(c1), ret |-> to_purge]

----------------------------------------------------------------------------
(* RingSpec: arbitrary call sequences on one ring *)

\* the array a writer offers: n fresh item values
Fresh(n) == [i \in 1..n |-> nxt + i - 1]

\* history update for an accepted write: on an overwrite ring the oldest
\* items beyond the capacity are the ones given up
Keep(q, c) ==
    IF c.m_overwrite # 0 /\ Len(q) > c.m_buf_len
    THEN SubSeq(q, Len(q) - c.m_buf_len + 1, Len(q))
    ELSE q

\* m_center_freq = 0.0; m_resampler = new dsp_resampler(); no tune yet
TuneIdle ==
    /\ m_center_freq = 0
    /\ m_resampler = "reset"
    /\ tune_ret = <<>>
    /\ freq = 0
    /\ tuned = 1 /\ flushed = FALSE

\* c0_detect has not been called
C0Idle ==
    /\ bi = 0 /\ arfcn = 0
    /\ power = <<>> /\ thresh = <<0, 0>>
    /\ found_count = 0 /\ notfound_count = 0
    /\ attempted = {}
    /\ min_offset = 0 /\ max_offset = 0

\* no signal has been delivered
SigIdle ==
    /\ exited = FALSE /\ signals = 0
    /\ observed = FALSE

\* no scan driver has been called and no signal delivered
DrvIdle ==
    /\ SigIdle
    /\ dpc = <<"main", "none">> /\ result = <<>>
    /\ C0Idle
    /\ count = 0 /\ iterations = 0 /\ offsets = <<>>
    /\ notfound = 0 /\ report = <<>>

HIGH == 1

LOW == 0

\* the frequency freq_detect finds in the region that starts at y_offset:
\* regions are told apart by it
Freq(y_offset) == y_offset + 1

\* the constructor: zero weights, m_e = 0, m_G = G, empty rings, edge
\* detector HIGH with count 0; no scan called yet
DetIdle ==
    /\ spc = "idle"
    /\ s_len = 0 /\ stale = 0 /\ s_done = 0
    /\ m_x_cb = 0 /\ m_y_cb = 0 /\ m_e_cb = <<>>
    /\ e_batch = <<>> /\ e_sum = 0
    /\ m_w = 0 /\ m_e = 0 /\ m_G = "G"
    /\ m_lth_count = 0 /\ m_lth_state = HIGH
    /\ e_i = 0 /\ l_count = 0 /\ pm = 0 /\ loff = 0
    /\ evaluated = <<>>
    /\ scan_ret = <<>> /\ offset_out = <<>> /\ consumed_out = <<>>
    /\ nne_ret = <<>>

\* the source's members, but for dev, and the threads' positions before any
\* call
SrcMembers ==
    /\ rx = FALSE /\ streaming = FALSE
    /\ m_overflow_count = 0
    /\ data_mutex = "free" /\ m_mutex = "free"
    /\ g_kal_exit_req = FALSE
    /\ ppc = "idle"
    /\ produced = 0 /\ m_batch_buffer = <<>> /\ written = 0
    /\ cpc = "idle" /\ after = "idle"
    /\ num_samples = 0 /\ seen = FALSE
    /\ zeroed = "no"
    /\ fill_ret = <<>> /\ overruns_out = <<>>
    /\ held = FALSE /\ b_ptr = 0 /\ b_len = 0 /\ span_i = 0
    /\ prev = 0
    /\ TuneIdle
    /\ DetIdle

\* the source and the process before any call
SrcRest == SrcMembers /\ DrvIdle

\* the source once open() has succeeded
SrcIdle == dev = TRUE /\ SrcRest

RingInit ==
    /\ \E buf_len \in 1..MaxBufLen, item_size \in ItemSizes, overwrite \in {0, 1} :
          cb = circular_buffer(buf_len, item_size, overwrite)
    /\ crashed = FALSE
    /\ op = "new" /\ arg = 0 /\ ret = 0 /\ ptr = 0 /\ dst = <<>>
    /\ nxt = 1
    /\ fifo = <<>>
    /\ SrcIdle

\* the copy orders that can be told apart for this call
Orders(c, len) == IF Aliased(c, len) THEN {"asc", "desc"} ELSE {"asc"}

Write(n) ==
    /\ ~crashed
    /\ nxt + n - 1 <= MaxSeq
    /\ op' = "write" /\ arg' = n
    /\ nxt' = nxt + n
    /\ ptr' = 0 /\ dst' = <<>>
    /\ UNCHANGED <<srcvars, tunevars, drvvars,
                   detvars>>
    /\ \/ \E order \in Orders(cb, n) :
             LET w == write(cb, Fresh(n), n, order)
             IN  /\ cb' = w.cb
                 /\ ret' = w.ret
                 /\ fifo' = Keep(fifo \o SubSeq(Fresh(n), 1, w.ret), cb)
                 /\ crashed' = FALSE
       \/ /\ Overrun(cb, n)
          /\ crashed' = TRUE
          /\ UNCHANGED <<cb, ret, fifo>>

Read(n) ==
    /\ ~crashed
    /\ LET rd == read(cb, n)
       IN  /\ cb' = rd.cb
           /\ ret' = rd.ret
           /\ dst' = rd.s
           /\ fifo' = SubSeq(fifo, rd.ret + 1, Len(fifo))
    /\ op' = "read" /\ arg' = n
    /\ ptr' = 0
    /\ UNCHANGED <<crashed, nxt, srcvars, tunevars, drvvars,
                   detvars>>

Peek ==
    /\ ~crashed
    /\ LET pk == peek(cb)
       IN  /\ ret' = pk.len
           /\ ptr' = pk.ptr
           /\ dst' = Span(cb, pk.ptr, pk.len)
    /\ op' = "peek" /\ arg' = 0
    /\ UNCHANGED <<cb, crashed, nxt, fifo, srcvars, tunevars, drvvars,
                   detvars>>

Purge(n) ==
    /\ ~crashed
    /\ LET pg == purge(cb, n)
       IN  /\ cb' = pg.cb
           /\ ret' = pg.ret
           /\ fifo' = SubSeq(fifo, pg.ret + 1, Len(fifo))
    /\ op' = "purge" /\ arg' = n
    /\ ptr' = 0 /\ dst' = <<>>
    /\ UNCHANGED <<crashed, nxt, srcvars, tunevars, drvvars,
                   detvars>>

Flush ==
    /\ ~crashed
    /\ cb' = flush(cb)
    /\ fifo' = <<>>
    /\ op' = "flush" /\ arg' = 0 /\ ret' = 0
    /\ ptr' = 0 /\ dst' = <<>>
    /\ UNCHANGED <<crashed, nxt, srcvars, tunevars, drvvars,
                   detvars>>

RingNext ==
    \/ \E n \in 0..MaxLen : Write(n)
    \/ \E n \in 0..MaxLen : Read(n)
    \/ Peek
    \/ \E n \in 0..MaxLen : Purge(n)
    \/ Flush

RingSpec == RingInit /\ [][RingNext]_vars

----------------------------------------------------------------------------
(* Vocabulary of the ring claims *)

\* the items between the cursors, oldest first, addressed byte by byte with
\* explicit wrap-around in the file (no use of the second mapping)
Live(c) ==
    [i \in 1..data_available(c) |->
        [j \in 1..c.m_item_size |->
            c.m_buf[(c.m_r + (i - 1) * c.m_item_size + j - 1) % c.m_buf_size]]]

\* the bytes of a sequence of item values
Enc(q, isz) == [i \in 1..Len(q) |-> ItemBytes(q[i], isz)]

\* the live bytes start in the first mapping's tail and end past the boundary
Straddles(c) ==
    ReadOffset(c) + USub(c.m_w, c.m_r) > c.m_buf_size

----------------------------------------------------------------------------
(* C1: after any sequence of write, read, purge and flush calls, on a ring *)
(* of either overwrite policy, data_available() + space_available() equals *)
(* capacity().                                                             *)
C1_AvailablePlusSpaceIsCapacity ==
    data_available(cb) + space_available(cb) = capacity(cb)

\* an overwrite ring whose live byte count is no multiple of the item size,
\* partly filled, reached by a purge
C1_Witness ==
    /\ op = "purge" /\ ret > 0
    /\ cb.m_overwrite = 1
    /\ USub(cb.m_w, cb.m_r) % cb.m_item_size # 0
    /\ data_available(cb) > 0 /\ space_available(cb) > 0

(* C2: in every reachable state, for both overwrite policies and any write *)
(* length, the byte cursors satisfy w >= r and w - r <= S.                 *)
C2_CursorOrder ==
    /\ cb.m_w >= cb.m_r
    /\ cb.m_w - cb.m_r <= cb.m_buf_size

\* an overwrite ring just after a write of more items than its capacity
C2_Witness ==
    /\ op = "write" /\ ~crashed
    /\ cb.m_overwrite = 1
    /\ arg > cb.m_buf_len
    /\ cb.m_w - cb.m_r = cb.m_buf_size

(* C3: on a non-overwrite ring, in any cursor position, read returns the   *)
(* items that were written, in the order written: the items a read copies  *)
(* out are the oldest accepted items not yet consumed, and the items left  *)
(* in the ring are the remaining accepted items, in write order.           *)
C3_RoundTrip ==
    [][ (op' = "read" /\ cb.m_overwrite = 0) =>
           /\ dst' = Enc(SubSeq(fifo, 1, ret'), cb.m_item_size)
           /\ Live(cb') = Enc(fifo', cb.m_item_size) ]_vars

\* a read of two or more items that crossed the wrap boundary
C3_Witness ==
    /\ op = "read" /\ cb.m_overwrite = 0
    /\ ret >= 2 /\ ret = arg
    /\ 0 < ReadOffset(cb) /\ ReadOffset(cb) < ret * cb.m_item_size

(* C4: write(src, n) on a non-overwrite ring stores exactly the first      *)
(* min(n, space_available()) items of src after the unread items, returns  *)
(* that count, leaves r unchanged and overwrites no unread item.           *)
C4_WriteNoOverwrite ==
    [][ (op' = "write" /\ cb.m_overwrite = 0) =>
           LET k == MIN(arg', space_available(cb))
           IN  /\ ~crashed'
               /\ ret' = k
               /\ cb'.m_r = cb.m_r
               /\ Live(cb') = Live(cb) \o Enc(SubSeq(Fresh(arg'), 1, k),
                                               cb.m_item_size) ]_vars

\* a write that was cut short and whose bytes crossed the wrap boundary
C4_Witness ==
    /\ op = "write" /\ cb.m_overwrite = 0
    /\ 0 < ret /\ ret < arg
    /\ Straddles(cb)

(* C5: write(src, n) on an overwrite ring accepts all n items (returns n); *)
(* when the unread bytes would exceed S it advances r so that w - r = S,   *)
(* giving up the oldest items (the ring then holds the newest capacity()   *)
(* items in write order); otherwise r is unchanged.                        *)
C5_WriteOverwrite ==
    [][ (op' = "write" /\ cb.m_overwrite = 1) =>
           /\ ~crashed'
           /\ ret' = arg'
           /\ IF USub(cb.m_w, cb.m_r) + arg' * cb.m_item_size > cb.m_buf_size
              THEN /\ USub(cb'.m_w, cb'.m_r) = cb.m_buf_size
                   /\ Live(cb') = Enc(fifo', cb.m_item_size)
              ELSE cb'.m_r = cb.m_r ]_vars

(* C6: read(dst, n) and purge(n) each return k = min(n, data_available()), *)
(* advance r by exactly k items (up to the winding back of both cursors by *)
(* S), leave the write position, the memory and the unread items after the *)
(* first k unchanged; read copies out the k oldest items of the ring.      *)
C6_ReadPurge ==
    [][ (op' \in {"read", "purge"}) =>
           LET k == MIN(arg', data_available(cb))
               S == cb.m_buf_size
           IN  /\ ret' = k
               /\ cb'.m_r % S = (cb.m_r + k * cb.m_item_size) % S
               /\ cb'.m_w % S = cb.m_w % S
               /\ USub(cb'.m_w, cb'.m_r) + k * cb.m_item_size
                     = USub(cb.m_w, cb.m_r)
               /\ cb'.m_buf = cb.m_buf
               /\ Live(cb') = SubSeq(Live(cb), k + 1, Len(Live(cb)))
               /\ (op' = "read" => dst' = SubSeq(Live(cb), 1, k)) ]_vars

\* a read that took fewer items than buffered, from a span across the boundary
C6_Witness ==
    /\ op = "read" /\ ret = arg /\ ret >= 2
    /\ 0 < ReadOffset(cb) /\ ReadOffset(cb) < ret * cb.m_item_size
    /\ data_available(cb) > 0

(* C7: peek() changes neither cursor, stores data_available() through len, *)
(* and returns m_buf + (r mod S); all live items lie inside the two        *)
(* mappings from there and read, as one contiguous span, oldest first, the *)
(* same as the ring's items between the cursors - also when they straddle  *)
(* the wrap boundary.                                                      *)
C7_Peek ==
    [][ (op' = "peek") =>
           /\ cb' = cb
           /\ ret' = data_available(cb)
           /\ ptr' = cb.m_r % cb.m_buf_size
           /\ ptr' + ret' * cb.m_item_size <= 2 * cb.m_buf_size
           /\ dst' = Live(cb) ]_vars

\* capacity 4: write 3, read 2, write some more; the live items cross the
\* boundary and the span seen at the returned address is what was written
C7_Witness ==
    /\ op = "peek" /\ cb.m_overwrite = 0
    /\ ret >= 3
    /\ 0 < ptr /\ ptr + ret * cb.m_item_size > cb.m_buf_size
    /\ dst = Enc(fifo, cb.m_item_size)

----------------------------------------------------------------------------
(* hydrasdr_source: the driver thread runs fill_buffer_callback, the        *)
(* consumer thread runs start, fill, flush and the ring calls of the scan   *)
(* drivers, stop comes from any thread, and a signal sets the exit flag.    *)
(*                                                                          *)
(* A step holds at most one access that another thread can race with (an   *)
(* atomic, the exit flag, the ring), together with the lock acquisitions    *)
(* before it, the lock releases after it, and the thread-local code around  *)
(* it.  Two places are kept as steps of their own although they could be    *)
(* folded in: the consumer holding the ring's mutex inside flush, peek and  *)
(* purge, and the consumer between its load of streaming and its sleep in   *)
(* wait_for.                                                                *)

\* sizeof(complex), scaled down
SizeofComplex == 2

\* 256 * 1024, the buf_len of the sample ring, scaled down
SrcBufLen == 2

\* the size of m_batch_buffer, the most process() returns, scaled down
BATCH_SIZE == 2

\* mutant: the sample ring gives up unread samples
SampleRing_Overwrite == circular_buffer(SrcBufLen, SizeofComplex, 1)

\* cb = new circular_buffer(256 * 1024, sizeof(complex)): the third argument
\* is left to its default; the callback counts what write did not take as
\* "buffer full", which is a ring that does not overwrite
SampleRing == circular_buffer(SrcBufLen, SizeofComplex, 0)

prodvars == <<ppc, produced, m_batch_buffer, written>>

fillvars == <<num_samples, seen, zeroed, fill_ret, overruns_out>>

spanvars == <<held, b_ptr, b_len, span_i, prev>>

SourceInit ==
    /\ cb = SampleRing
    /\ crashed = FALSE
    /\ op = "new" /\ arg = 0 /\ ret = 0 /\ ptr = 0 /\ dst = <<>>
    /\ nxt = 1
    /\ fifo = <<>>
    /\ SrcIdle

\* the callback returns: its locals are gone
CallbackReturns ==
    /\ ppc' = "idle"
    /\ produced' = 0 /\ m_batch_buffer' = <<>> /\ written' = 0

\* the consumer starts another call: what the last fill left is gone
NextCall ==
    /\ fill_ret' = <<>> /\ overruns_out' = <<>>
    /\ seen' = FALSE /\ zeroed' = "no"

\* a notify on data_ready: a thread sleeping in wait_for goes on to re-lock
Notified(pc) == IF pc = "fill_waiting" THEN "fill_lock" ELSE pc

(* ---- producer: fill_buffer_callback ---- *)

\* the driver calls back with a transfer; the callback loads streaming
Callback ==
    /\ rx /\ ppc = "idle"
    /\ IF ~streaming
       THEN CallbackReturns
       ELSE /\ ppc' = "process"
            /\ UNCHANGED <<produced, m_batch_buffer, written>>
    /\ UNCHANGED <<ringvars, dev, rx, streaming, m_overflow_count, data_mutex,
                   m_mutex, g_kal_exit_req, cpc, after, fillvars, spanvars,
                   tunevars, drvvars,
                   detvars>>

\* if (transfer->dropped_samples > 0) m_overflow_count += dropped_samples;
\* produced = m_resampler->process(...): k new samples in m_batch_buffer
Process(k, dropped_samples) ==
    /\ ppc = "process"
    /\ nxt + k - 1 <= MaxSamples
    /\ m_overflow_count + dropped_samples <= MaxOverflow
    /\ m_overflow_count' =
          IF dropped_samples > 0
          THEN UAdd(m_overflow_count, dropped_samples)
          ELSE m_overflow_count
    /\ nxt' = nxt + k
    /\ m_resampler' = "history"
    /\ IF k > 0
       THEN /\ produced' = k
            /\ m_batch_buffer' = Fresh(k)
            /\ ppc' = "try_lock"
            /\ UNCHANGED written
       ELSE CallbackReturns
    /\ UNCHANGED <<cb, callvars, dev, rx, streaming, data_mutex, m_mutex,
                   g_kal_exit_req, cpc, after, fillvars, spanvars,
                   m_center_freq, tune_ret, freq, drvvars,
                   detvars, tuned, flushed>>

\* std::mutex::try_lock succeeds iff nobody owns the mutex
TryLock(owner) == owner = "free"

\* if (lock.try_lock()) ... else m_overflow_count += produced
ProducerTryLock ==
    /\ ppc = "try_lock"
    /\ IF TryLock(data_mutex)
       THEN /\ data_mutex' = "producer"
            /\ ppc' = "write"
            /\ UNCHANGED <<m_overflow_count, produced,
                           m_batch_buffer, written>>
       ELSE /\ m_overflow_count' = UAdd(m_overflow_count, produced)
            /\ CallbackReturns
            /\ UNCHANGED data_mutex
    /\ UNCHANGED <<ringvars, dev, rx, streaming, m_mutex, g_kal_exit_req,
                   cpc, after, fillvars, spanvars,
                   tunevars, drvvars,
                   detvars>>

\* if (cb) written = cb->write(m_batch_buffer, produced): the lock_guard in
\* write waits until the ring's mutex is free
ProducerWrite ==
    /\ ppc = "write"
    /\ cb # NoRing
    /\ m_mutex = "free"
    /\ LET w == write(cb, m_batch_buffer, produced, "asc")
       IN  /\ cb' = w.cb
           /\ written' = w.ret
    /\ ppc' = "account"
    /\ UNCHANGED <<callvars, nxt, dev, rx, streaming, m_overflow_count,
                   data_mutex, m_mutex, g_kal_exit_req, produced,
                   m_batch_buffer, cpc, after, fillvars, spanvars,
                   tunevars, drvvars,
                   detvars>>

\* if (written < produced) m_overflow_count += produced - written;
\* lock.unlock()
CountOverflow ==
    /\ ppc = "account"
    /\ m_overflow_count' =
          IF written < produced
          THEN UAdd(m_overflow_count, produced - written)
          ELSE m_overflow_count
    /\ data_mutex' = "free"
    /\ ppc' = "notify"
    /\ UNCHANGED <<ringvars, dev, rx, streaming, m_mutex, g_kal_exit_req,
                   produced, m_batch_buffer, written, cpc, after,
                   fillvars, spanvars,
                   tunevars, drvvars,
                   detvars>>

\* data_ready.notify_one(); return 0
NotifyOne ==
    /\ ppc = "notify"
    /\ cpc' = Notified(cpc)
    /\ CallbackReturns
    /\ UNCHANGED <<ringvars, dev, rx, streaming, m_overflow_count, data_mutex,
                   m_mutex, g_kal_exit_req, after, fillvars, spanvars,
                   tunevars, drvvars,
                   detvars>>

(* ---- consumer: start ---- *)

\* u->start() called by a scan driver
Start ==
    /\ cpc = "idle"
    /\ cpc' = "start"
    /\ after' = "idle"
    /\ NextCall
    /\ UNCHANGED <<ringvars, dev, rx, streaming, m_overflow_count, data_mutex,
                   m_mutex, g_kal_exit_req, prodvars, num_samples, spanvars,
                   tunevars, drvvars,
                   detvars>>

\* if (!dev) return -1; m_resampler->reset(); m_overflow_count = 0
StartReset ==
    /\ cpc = "start"
    /\ IF ~dev
       THEN /\ cpc' = after
            /\ UNCHANGED <<m_overflow_count, zeroed, m_resampler>>
       ELSE /\ m_resampler' = "reset"
            /\ m_overflow_count' = 0
            /\ zeroed' = IF after # "idle" /\ m_overflow_count > 0
                         THEN "start" ELSE zeroed
            /\ cpc' = "start_rx"
    /\ UNCHANGED <<ringvars, dev, rx, streaming, data_mutex, m_mutex,
                   g_kal_exit_req, prodvars, after, num_samples, seen,
                   fill_ret, overruns_out, spanvars,
                   m_center_freq, tune_ret, freq, drvvars,
                   detvars, tuned, flushed>>

\* r = hydrasdr_start_rx(...); if (r != HYDRASDR_SUCCESS) return -1;
\* streaming.store(true); return 0
StartRx(r) ==
    /\ cpc = "start_rx"
    /\ IF r = "HYDRASDR_SUCCESS"
       THEN rx' = TRUE /\ streaming' = TRUE
       ELSE UNCHANGED <<rx, streaming>>
    /\ cpc' = after
    /\ UNCHANGED <<ringvars, dev, m_overflow_count, data_mutex, m_mutex,
                   g_kal_exit_req, prodvars, after, fillvars, spanvars,
                   tunevars, drvvars,
                   detvars>>

(* ---- consumer: fill ---- *)

\* fill returns r: the unique_lock, if held, is released with it.  A scan
\* driver that gets -1 leaves its loop and makes no further call.
FillReturns(r) ==
    /\ fill_ret' = <<r>>
    /\ cpc' = IF r = 0 THEN "idle" ELSE "done"
    /\ num_samples' = 0

\* fill(n, &overruns): if (!cb) return -1; if (!streaming.load()) start()
Fill(n) ==
    /\ cpc = "idle"
    /\ overruns_out' = <<>>
    /\ zeroed' = "no"
    /\ seen' = streaming
    /\ IF cb = NoRing
       THEN /\ FillReturns(-1)
            /\ UNCHANGED after
       ELSE /\ fill_ret' = <<>>
            /\ num_samples' = n
            /\ IF ~streaming
               THEN cpc' = "start" /\ after' = "fill_lock"
               ELSE cpc' = "fill_lock" /\ UNCHANGED after
    /\ flushed' = FALSE
    /\ UNCHANGED <<ringvars, dev, rx, streaming, m_overflow_count, data_mutex,
                   m_mutex, g_kal_exit_req, prodvars, spanvars,
                   m_center_freq, m_resampler, tune_ret, freq, tuned,
                   drvvars, detvars>>

\* cb->data_available() >= num_samples
Enough(avail, n) == avail >= n

\* std::unique_lock<std::mutex> lock(data_mutex) (or the re-lock that ends
\* wait_for); if (g_kal_exit_req) return -1; cb->data_available() >= n
FillLoop ==
    /\ cpc = "fill_lock"
    /\ data_mutex = "free"
    /\ IF g_kal_exit_req
       THEN /\ FillReturns(-1)
            /\ UNCHANGED data_mutex
       ELSE /\ m_mutex = "free"
            /\ data_mutex' = "consumer"
            /\ cpc' = IF Enough(data_available(cb), num_samples)
                      THEN "fill_final" ELSE "fill_streaming"
            /\ UNCHANGED <<fill_ret, num_samples>>
    /\ UNCHANGED <<ringvars, dev, rx, streaming, m_overflow_count, m_mutex,
                   g_kal_exit_req, prodvars, after, seen, overruns_out, zeroed,
                   spanvars,
                   tunevars, drvvars,
                   detvars>>

\* the second operand: || !streaming.load() -> break, else wait_for
FillStreaming ==
    /\ cpc = "fill_streaming"
    /\ seen' = streaming
    /\ cpc' = IF ~streaming THEN "fill_final" ELSE "fill_wait"
    /\ UNCHANGED <<ringvars, dev, rx, streaming, m_overflow_count, data_mutex,
                   m_mutex, g_kal_exit_req, prodvars, after, num_samples,
                   fill_ret, overruns_out, zeroed, spanvars,
                   tunevars, drvvars,
                   detvars>>

\* data_ready.wait_for(lock, 100 ms): the mutex is released and the thread
\* sleeps
FillWait ==
    /\ cpc = "fill_wait"
    /\ data_mutex' = "free"
    /\ cpc' = "fill_waiting"
    /\ UNCHANGED <<ringvars, dev, rx, streaming, m_overflow_count, m_mutex,
                   g_kal_exit_req, prodvars, after, fillvars, spanvars,
                   tunevars, drvvars,
                   detvars>>

\* mutant: data_ready.wait(lock), a wait that only a notification ends
FillTimeout_Never ==
    /\ cpc = "fill_waiting"
    /\ FALSE
    /\ UNCHANGED vars

\* the 100 ms pass (or the wait ends spuriously)
FillTimeout ==
    /\ cpc = "fill_waiting"
    /\ cpc' = "fill_lock"
    /\ UNCHANGED <<ringvars, dev, rx, streaming, m_overflow_count, data_mutex,
                   m_mutex, g_kal_exit_req, prodvars, after, fillvars,
                   spanvars,
                   tunevars, drvvars,
                   detvars>>

\* mutant: the flag is not looked at again after the loop
FillResult_Always0(s) == 0

\* if (!streaming.load()) return -1; ... return 0
FillResult(s) == IF ~s THEN -1 ELSE 0

\* after the loop: the last load of streaming decides the result
FillFinal ==
    /\ cpc = "fill_final"
    /\ seen' = streaming
    /\ IF FillResult(streaming) = 0
       THEN /\ cpc' = "fill_exchange"
            /\ UNCHANGED <<fill_ret, data_mutex, num_samples>>
       ELSE /\ FillReturns(FillResult(streaming))
            /\ data_mutex' = "free"
    /\ UNCHANGED <<ringvars, dev, rx, streaming, m_overflow_count, m_mutex,
                   g_kal_exit_req, prodvars, after, overruns_out, zeroed,
                   spanvars,
                   tunevars, drvvars,
                   detvars>>

\* mutant: *overruns = m_overflow_count.load(), the counter is not reset
FillExchange_LoadOnly ==
    /\ cpc = "fill_exchange"
    /\ overruns_out' = <<m_overflow_count>>
    /\ FillReturns(0)
    /\ data_mutex' = "free"
    /\ UNCHANGED <<ringvars, dev, rx, streaming, m_overflow_count, m_mutex,
                   g_kal_exit_req, prodvars, after, seen, zeroed, spanvars,
                   tunevars, drvvars,
                   detvars>>

\* if (overruns) *overruns = m_overflow_count.exchange(0); return 0
FillExchange ==
    /\ cpc = "fill_exchange"
    /\ overruns_out' = <<m_overflow_count>>
    /\ m_overflow_count' = 0
    /\ zeroed' = IF m_overflow_count > 0 THEN "exchange" ELSE zeroed
    /\ FillReturns(0)
    /\ data_mutex' = "free"
    /\ UNCHANGED <<ringvars, dev, rx, streaming, m_mutex, g_kal_exit_req,
                   prodvars, after, seen, spanvars,
                   tunevars, drvvars,
                   detvars>>

(* ---- consumer: flush and the ring calls of the scan drivers ---- *)

\* u->flush(): cb->flush() takes the ring's mutex
SourceFlushLock ==
    /\ cpc = "idle"
    /\ m_mutex = "free"
    /\ m_mutex' = "consumer"
    /\ cpc' = "flush"
    /\ NextCall
    /\ UNCHANGED <<ringvars, dev, rx, streaming, m_overflow_count, data_mutex,
                   g_kal_exit_req, prodvars, after, num_samples, spanvars,
                   tunevars, drvvars,
                   detvars>>

\* mutant: the ring's mutex is locked by hand and not unlocked on return
SourceFlush_KeepsLock ==
    /\ cpc = "flush"
    /\ cb' = flush(cb)
    /\ m_mutex' = m_mutex
    /\ held' = FALSE
    /\ b_ptr' = 0 /\ b_len' = 0 /\ span_i' = 0
    /\ cpc' = "flush_count"
    /\ flushed' = TRUE
    /\ UNCHANGED <<callvars, nxt, dev, rx, streaming, m_overflow_count,
                   data_mutex, g_kal_exit_req, prodvars, after, fillvars,
                   prev, m_center_freq, m_resampler, tune_ret, freq, tuned,
                   drvvars, detvars>>

\* cb->flush(): m_r = 0, m_w = 0; whatever span was in use is given up
SourceFlush ==
    /\ cpc = "flush"
    /\ cb' = flush(cb)
    /\ m_mutex' = "free"
    /\ held' = FALSE
    /\ b_ptr' = 0 /\ b_len' = 0 /\ span_i' = 0
    /\ cpc' = "flush_count"
    /\ flushed' = TRUE
    /\ UNCHANGED <<callvars, nxt, dev, rx, streaming, m_overflow_count,
                   data_mutex, g_kal_exit_req, prodvars, after, fillvars,
                   prev, m_center_freq, m_resampler, tune_ret, freq, tuned,
                   drvvars, detvars>>

\* m_overflow_count = 0; return 0
SourceFlushCount ==
    /\ cpc = "flush_count"
    /\ m_overflow_count' = 0
    /\ cpc' = "idle"
    /\ UNCHANGED <<ringvars, dev, rx, streaming, data_mutex, m_mutex,
                   g_kal_exit_req, prodvars, after, fillvars, spanvars,
                   tunevars, drvvars,
                   detvars>>

\* cb->peek(&b_len): the guard on the ring's mutex
SourcePeekLock ==
    /\ cpc = "idle" /\ ~held
    /\ m_mutex = "free"
    /\ m_mutex' = "consumer"
    /\ cpc' = "peek"
    /\ NextCall
    /\ UNCHANGED <<ringvars, dev, rx, streaming, m_overflow_count, data_mutex,
                   g_kal_exit_req, prodvars, after, num_samples, spanvars,
                   tunevars, drvvars,
                   detvars>>

\* cb->peek(&b_len) returns the span's address and length
SourcePeek ==
    /\ cpc = "peek"
    /\ LET pk == peek(cb)
       IN  /\ b_ptr' = IF pk.len > 0 THEN pk.ptr ELSE 0
           /\ b_len' = pk.len
           /\ held' = (pk.len > 0)
    /\ m_mutex' = "free"
    /\ cpc' = "idle"
    /\ UNCHANGED <<ringvars, dev, rx, streaming, m_overflow_count, data_mutex,
                   g_kal_exit_req, prodvars, after, fillvars, span_i, prev,
                   tunevars, drvvars,
                   detvars>>

\* the scan reads the next sample of the span through the pointer (no lock)
SpanRead ==
    /\ cpc = "idle" /\ held
    /\ span_i < b_len
    /\ prev' = ItemAt(cb, b_ptr + span_i * cb.m_item_size)[1][1]
    /\ span_i' = span_i + 1
    /\ NextCall
    /\ UNCHANGED <<ringvars, dev, rx, streaming, m_overflow_count, data_mutex,
                   m_mutex, g_kal_exit_req, prodvars, cpc, after, num_samples,
                   held, b_ptr, b_len,
                   tunevars, drvvars,
                   detvars>>

\* cb->purge(consumed): the guard on the ring's mutex
SourcePurgeLock(consumed) ==
    /\ cpc = "idle" /\ held
    /\ consumed <= b_len
    /\ m_mutex = "free"
    /\ m_mutex' = "consumer"
    /\ span_i' = consumed
    /\ cpc' = "purge"
    /\ NextCall
    /\ UNCHANGED <<ringvars, dev, rx, streaming, m_overflow_count, data_mutex,
                   g_kal_exit_req, prodvars, after, num_samples, held, b_ptr,
                   b_len, prev,
                   tunevars, drvvars,
                   detvars>>

\* cb->purge(consumed) drops the samples the scan is done with
SourcePurge ==
    /\ cpc = "purge"
    /\ LET pg == purge(cb, span_i)
       IN  /\ cb' = pg.cb
           /\ prev' = IF pg.ret > 0
                      THEN ItemAt(cb, b_ptr + (pg.ret - 1) * cb.m_item_size)[1][1]
                      ELSE prev
    /\ m_mutex' = "free"
    /\ held' = FALSE
    /\ b_ptr' = 0 /\ b_len' = 0 /\ span_i' = 0
    /\ cpc' = "idle"
    /\ UNCHANGED <<callvars, nxt, dev, rx, streaming, m_overflow_count,
                   data_mutex, g_kal_exit_req, prodvars, after, fillvars,
                   tunevars, drvvars,
                   detvars>>

(* ---- stop, from any thread ---- *)

\* if (dev && streaming.load()) { hydrasdr_stop_rx(dev);
\* streaming.store(false); data_ready.notify_all(); }
Stop ==
    /\ dev /\ streaming
    /\ rx' = FALSE
    /\ streaming' = FALSE
    /\ cpc' = Notified(cpc)
    /\ UNCHANGED <<ringvars, dev, m_overflow_count, data_mutex, m_mutex,
                   g_kal_exit_req, prodvars, after, fillvars, spanvars,
                   tunevars, drvvars,
                   detvars>>

(* ---- signal ---- *)

\* sighandler: g_kal_exit_req = 1.  Only fill reads the flag, so a signal that
\* arrives between two fills is taken when the next fill has begun.
Signal ==
    /\ ~g_kal_exit_req
    /\ num_samples > 0
    /\ g_kal_exit_req' = TRUE
    /\ UNCHANGED <<ringvars, dev, rx, streaming, m_overflow_count, data_mutex,
                   m_mutex, prodvars, cpc, after, fillvars, spanvars,
                   tunevars, drvvars,
                   detvars>>

SourceNext ==
    \/ Callback
    \/ \E k \in 0..BATCH_SIZE, dropped_samples \in 0..MaxOverflow :
          Process(k, dropped_samples)
    \/ ProducerTryLock
    \/ ProducerWrite
    \/ CountOverflow
    \/ NotifyOne
    \/ Start
    \/ StartReset
    \/ \E r \in {"HYDRASDR_SUCCESS", "HYDRASDR_ERROR"} : StartRx(r)
    \/ \E n \in 1..capacity(cb) : Fill(n)
    \/ FillLoop
    \/ FillStreaming
    \/ FillWait
    \/ FillTimeout
    \/ FillFinal
    \/ FillExchange
    \/ SourceFlushLock
    \/ SourceFlush
    \/ SourceFlushCount
    \/ SourcePeekLock
    \/ SourcePeek
    \/ SpanRead
    \/ \E consumed \in 1..capacity(cb) : SourcePurgeLock(consumed)
    \/ SourcePurge
    \/ Stop
    \/ Signal

SourceSpec == SourceInit /\ [][SourceNext]_vars

----------------------------------------------------------------------------
(* Vocabulary of the source claims *)

\* the callback stands at the lock_guard in cb->write and the ring's mutex is
\* taken: it waits
CallbackWaits == ppc = "write" /\ m_mutex # "free"

\* this step is the scan reading the next sample of its span
ReadsSample == cpc = "idle" /\ cpc' = "idle" /\ held /\ span_i' = span_i + 1

\* this step is fill returning
FillReturn == fill_ret = <<>> /\ fill_ret' # <<>>

\* this step is fill returning because it found the exit flag set
SawExitFlag == FillReturn /\ cpc = "fill_lock" /\ g_kal_exit_req

----------------------------------------------------------------------------
(* C8: the producer callback never blocks: when the mutex is contended it  *)
(* drops the resampled samples and counts them as overflow, otherwise it   *)
(* writes them to the ring and notifies one waiter; in no interleaving     *)
(* with the consumer does the callback wait for a lock.                    *)
C8_ProducerNeverBlocks == ~CallbackWaits

(* C9: with one producer and one consumer running concurrently, the        *)
(* samples the consumer obtains from the ring are a subsequence of the     *)
(* producer's output in the same order: every sample the scan reads from   *)
(* its span is a whole sample the producer made, and it is newer than      *)
(* every sample the consumer was done with before (read earlier in the     *)
(* span, purged, or read before a flush).                                  *)
C9_FifoOrder ==
    [][ ReadsSample =>
           /\ ItemAt(cb, b_ptr + span_i * cb.m_item_size)
                 = ItemBytes(prev', cb.m_item_size)
           /\ prev < prev'
           /\ prev' < nxt ]_vars

\* the scan has read a span of two samples that ends in the second mapping,
\* after the consumer had let go of an earlier sample and while drops are
\* counted
C9_Witness ==
    /\ held /\ span_i = b_len /\ b_len >= 2
    /\ b_ptr + b_len * cb.m_item_size > cb.m_buf_size
    /\ prev >= 3
    /\ m_overflow_count > 0

(* C10: fill(n) returns 0 only if, at return, the ring holds at least n    *)
(* samples and streaming is still on; it returns -1 whenever streaming has *)
(* stopped or the exit flag was observed (even if n samples are            *)
(* available), and in the -1 case it does not write *overruns or reset the *)
(* overflow counter.                                                       *)
C10_FillContract ==
    [][ FillReturn =>
           /\ fill_ret' = <<0>> =>
                 (data_available(cb') >= num_samples /\ streaming')
           /\ (~streaming' \/ SawExitFlag) => fill_ret' = <<-1>>
           /\ fill_ret' = <<-1>> =>
                 (overruns_out' = <<>> /\ zeroed' = "no") ]_vars

(* C10, amended: fill(n) returns 0 only if, at return, the ring holds at   *)
(* least n samples and streaming was on when fill last loaded it (a stop   *)
(* that lands after that load is not seen); it returns -1 whenever that    *)
(* load finds streaming off or the exit flag was observed (even if n       *)
(* samples are available); in the -1 case it does not write *overruns, and *)
(* it resets the overflow counter only through the start() it calls on     *)
(* entry when streaming is off.                                            *)
C10_FillContractAmended ==
    [][ FillReturn =>
           /\ fill_ret' = <<0>> =>
                 (data_available(cb') >= num_samples /\ seen')
           /\ (~seen' \/ SawExitFlag) => fill_ret' = <<-1>>
           /\ fill_ret' = <<-1>> =>
                 (overruns_out' = <<>> /\ zeroed' # "exchange") ]_vars

\* fill has returned -1 on a stop although the ring is full, and has left
\* the counted drops and *overruns alone
C10_Witness ==
    /\ fill_ret = <<-1>>
    /\ ~g_kal_exit_req
    /\ data_available(cb) = capacity(cb)
    /\ overruns_out = <<>>
    /\ m_overflow_count > 0

----------------------------------------------------------------------------
(* Progress of the source.  The threads are scheduled: a callback that has *)
(* begun runs to its return, and a consumer inside start() or fill() takes *)
(* its next step when it can; the 100 ms of wait_for do pass.  Nothing     *)
(* obliges the driver to call back again, anybody to call stop(), a signal *)
(* to arrive, or the scan driver to make its next call.                    *)

\* a step of a callback that has begun
ProducerRuns ==
    \/ \E k \in 0..BATCH_SIZE, dropped_samples \in 0..MaxOverflow :
          Process(k, dropped_samples)
    \/ ProducerTryLock
    \/ ProducerWrite
    \/ CountOverflow
    \/ NotifyOne

\* a step of the consumer inside start() or fill()
ConsumerRuns ==
    \/ StartReset
    \/ \E r \in {"HYDRASDR_SUCCESS", "HYDRASDR_ERROR"} : StartRx(r)
    \/ FillLoop
    \/ FillStreaming
    \/ FillWait
    \/ FillTimeout
    \/ FillFinal
    \/ FillExchange

\* what fill's progress depends on: the callback, start, fill, flush, stop
\* and the signal.  The scan's reading of the ring (peek, the span, purge)
\* happens between two fills and is left to SourceSpec.
FillNext ==
    \/ Callback
    \/ ProducerRuns
    \/ Start
    \/ ConsumerRuns
    \/ \E n \in 1..capacity(cb) : Fill(n)
    \/ SourceFlushLock
    \/ SourceFlush
    \/ SourceFlushCount
    \/ Stop
    \/ Signal

SourceLiveSpec ==
    /\ SourceInit /\ [][FillNext]_vars
    /\ WF_vars(ProducerRuns) /\ WF_vars(ConsumerRuns)

\* the consumer is blocked in fill: it waits for data_mutex (on entry or to
\* end wait_for), or it has decided to wait and sleeps in wait_for
BlockedInFill == cpc \in {"fill_lock", "fill_wait", "fill_waiting"}

\* the consumer sleeps in wait_for although streaming is off: the notify_all
\* of stop() came before it slept
MissedNotify == cpc = "fill_waiting" /\ ~streaming

(* C11: liveness of fill: if the exit flag is set or stop() has been       *)
(* called while the consumer is blocked in fill(), fill eventually returns *)
(* -1, even when the producer delivers no further samples and even when    *)
(* the notification from stop() is missed (the wait is re-checked on a     *)
(* timeout).                                                               *)
C11_FillEventuallyFails ==
    (BlockedInFill /\ (g_kal_exit_req \/ ~streaming)) ~> (fill_ret = <<-1>>)

\* stop() has been called between fill's load of streaming and its sleep, so
\* its notify_all woke nobody: the consumer sleeps in wait_for with too few
\* samples, no callback is running and the driver will make no other
C11_Witness ==
    /\ MissedNotify
    /\ ~g_kal_exit_req
    /\ ~Enough(data_available(cb), num_samples)
    /\ ~rx /\ ppc = "idle"

----------------------------------------------------------------------------
(* Vocabulary of the overflow accounting *)

\* this step is the callback giving up its batch because data_mutex is taken
DropsOnContention == ppc = "try_lock" /\ ppc' = "idle"

\* this step is the callback accounting for what cb->write did not take
DropsOnFull == ppc = "account" /\ ppc' = "notify"

\* this step is the callback's look at transfer->dropped_samples
DropsInHardware == ppc = "process" /\ ppc' # "process"

\* this step is a fill returning 0 with the counter's value in *overruns
ReportsAll ==
    /\ FillReturn /\ fill_ret' = <<0>>
    /\ overruns_out' = <<m_overflow_count>>
    /\ m_overflow_count' = 0

\* this step is the m_overflow_count = 0 of start() or of flush()
ClearsAll == cpc \in {"start", "flush_count"} /\ m_overflow_count' = 0

(* C12: overflow accounting: every sample dropped by the producer (ring    *)
(* full, lock contention, or hardware-reported drop) is added to the       *)
(* overflow counter exactly once, and each counted drop is reported by     *)
(* exactly one successful fill() (exchange-reset) unless it is cleared by  *)
(* an intervening flush() or start(); concurrent increment and exchange    *)
(* never lose or double-report a drop.  Step by step: the callback adds    *)
(* exactly what it drops, nothing else adds, and the counter only goes     *)
(* down to 0, either in a fill that returns 0 and hands out all of it or   *)
(* in start() or flush().                                                  *)
C12_OverflowAccounting ==
    [][ /\ DropsOnContention =>
              m_overflow_count' = m_overflow_count + produced
        /\ DropsOnFull =>
              /\ written <= produced
              /\ m_overflow_count' = m_overflow_count + (produced - written)
        /\ m_overflow_count' > m_overflow_count =>
              DropsOnContention \/ DropsOnFull \/ DropsInHardware
        /\ m_overflow_count' < m_overflow_count => ReportsAll \/ ClearsAll
        /\ (FillReturn /\ fill_ret' = <<0>>) => ReportsAll ]_vars

\* a fill has returned 0 and reported two drops, and the callback, running
\* beside it, has counted another since
C12_Witness ==
    /\ fill_ret = <<0>>
    /\ overruns_out # <<>>
    /\ overruns_out[1] >= 2
    /\ m_overflow_count > 0

----------------------------------------------------------------------------
(* hydrasdr_source::tune *)

\* the frequencies tune is called with
Freqs == {1, 2}

\* mutant: the new frequency is recorded before the driver has accepted it
tune_RecordFirst(f, r) ==
    /\ m_center_freq' = IF dev THEN f ELSE m_center_freq
    /\ IF ~dev \/ r # "HYDRASDR_SUCCESS"
       THEN /\ tune_ret' = <<-1>>
            /\ UNCHANGED <<m_resampler, tuned, flushed>>
       ELSE /\ m_resampler' = "reset"
            /\ tuned' = nxt /\ flushed' = FALSE
            /\ tune_ret' = <<0>>

\* if (!dev) return -1; r = hydrasdr_set_freq(dev, (uint64_t)freq);
\* if (r != HYDRASDR_SUCCESS) return -1; m_center_freq = freq;
\* m_resampler->reset(); return 0
tune(f, r) ==
    IF ~dev \/ r # "HYDRASDR_SUCCESS"
    THEN /\ tune_ret' = <<-1>>
         /\ UNCHANGED <<m_center_freq, m_resampler, tuned, flushed>>
    ELSE /\ m_center_freq' = f
         /\ m_resampler' = "reset"
         /\ tuned' = nxt /\ flushed' = FALSE
         /\ tune_ret' = <<0>>

\* u->tune(f) is called
TuneCall(f) ==
    /\ cpc = "idle"
    /\ cpc' = "tune"
    /\ freq' = f
    /\ tune_ret' = <<>>
    /\ UNCHANGED <<ringvars, dev, rx, streaming, m_overflow_count, data_mutex,
                   m_mutex, g_kal_exit_req, prodvars, after, fillvars,
                   spanvars, m_center_freq, m_resampler, drvvars,
                   detvars, tuned, flushed>>

\* the rest of tune, with the driver's answer r
TuneSetFreq(r) ==
    /\ cpc = "tune"
    /\ tune(freq, r)
    /\ cpc' = "idle"
    /\ UNCHANGED <<ringvars, dev, rx, streaming, m_overflow_count, data_mutex,
                   m_mutex, g_kal_exit_req, prodvars, after, fillvars,
                   spanvars, freq, drvvars,
                   detvars>>

\* the source after open(): opened, or left without a device by a failed
\* open (dev = NULL, cb = NULL)
TuneInit ==
    /\ dev \in BOOLEAN
    /\ cb = IF dev THEN SampleRing ELSE NoRing
    /\ crashed = FALSE
    /\ op = "new" /\ arg = 0 /\ ret = 0 /\ ptr = 0 /\ dst = <<>>
    /\ nxt = 1
    /\ fifo = <<>>
    /\ SrcRest

\* tune, start and stop called in any order while the callback runs
TuneNext ==
    \/ \E f \in Freqs : TuneCall(f)
    \/ \E r \in {"HYDRASDR_SUCCESS", "HYDRASDR_ERROR"} : TuneSetFreq(r)
    \/ Start
    \/ StartReset
    \/ \E r \in {"HYDRASDR_SUCCESS", "HYDRASDR_ERROR"} : StartRx(r)
    \/ Stop
    \/ Callback
    \/ ProducerRuns

TuneSpec == TuneInit /\ [][TuneNext]_vars

\* this step is tune returning
TuneReturn == tune_ret = <<>> /\ tune_ret' # <<>>

(* C14: every successful tune(freq) resets the resampler and records freq  *)
(* as the centre frequency; a failed tune (no device or driver error)      *)
(* returns -1 and leaves the centre frequency and resampler state          *)
(* unchanged.  tune returns 0 or -1, and -1 whenever there is no device.   *)
C14_Tune ==
    [][ TuneReturn =>
           /\ tune_ret' \in {<<0>>, <<-1>>}
           /\ ~dev => tune_ret' = <<-1>>
           /\ tune_ret' = <<0>> =>
                 (m_center_freq' = freq /\ m_resampler' = "reset")
           /\ tune_ret' = <<-1>> =>
                 UNCHANGED <<m_center_freq, m_resampler>> ]_vars

\* a tune to another frequency has failed while the callback had put samples
\* through the resampler since the last successful tune: the centre frequency
\* and the filter history are as they were
C14_Witness ==
    /\ tune_ret = <<-1>>
    /\ dev
    /\ m_center_freq # 0 /\ freq # m_center_freq
    /\ m_resampler = "history"

----------------------------------------------------------------------------
(* The scan drivers: c0_detect and offset_detect, called by main on an     *)
(* opened source.  The driver's position dpc is <<phase, step>>; the       *)
(* source's answers (tune, fill, the samples peeked, the detector's        *)
(* verdict) and the signal are inputs.  A signal can arrive between any    *)
(* two steps.                                                              *)

\* the channels of the band, scaled down
MaxChans == 3

\* the values a channel's measured power takes
MaxPower == 2

\* the signals delivered to the process
MaxSignals == 2

BI_NOT_DEFINED == -1

MAX_ARFCN == 2048

NOTFOUND_MAX == 10

\* mutant: the channel is given up after five failures
GivesUp_AtFive(n) == n >= 5

\* if (notfound_count >= NOTFOUND_MAX), after notfound_count += 1
GivesUp(n) == n >= NOTFOUND_MAX

\* the band indicators c0_detect is called with
Bands == {BI_NOT_DEFINED, 1}

\* the band's channels, in the order first_chan / next_chan give them
Chans == 1..MaxChans

first_chan(b) == 1

next_chan(c, b) == IF c < MaxChans THEN c + 1 ELSE -1

arfcn_to_freq(c, b) == 10 * c

\* samples asked of fill, scaled down (power_scan_len, frames_len, s_len)
FrameLen == 1

\* the source members the drivers' steps leave alone
srcquiet == <<dev, rx, streaming, m_overflow_count, data_mutex, m_mutex,
              prodvars, cpc, after, num_samples, seen, zeroed, spanvars>>

\* qsort with float_comp: ascending
RECURSIVE sort(_)
sort(data) ==
    IF data = <<>>
    THEN <<>>
    ELSE LET least == SetMin({data[k] : k \in 1..Len(data)})
             at == CHOOSE k \in 1..Len(data) : data[k] = least
         IN  <<least>> \o
             sort([k \in 1..(Len(data) - 1) |->
                      IF k < at THEN data[k] ELSE data[k + 1]])

RECURSIVE SumSeq(_)
SumSeq(data) ==
    IF data = <<>> THEN 0 ELSE Head(data) + SumSeq(Tail(data))

\* avg(data, len, 0): the mean sum / len, kept as <<sum, len>>
avg(data, len) == <<SumSeq(SubSeq(data, 1, len)), len>>

\* spower[] = the powers of the band's channels below MAX_ARFCN, sorted;
\* a = avg(spower, chan_count - 4 * chan_count / 10, 0), or 0.0 without
\* channels
Threshold(pw) ==
    LET chans == {c \in Chans : c < MAX_ARFCN}
        chan_count == Cardinality(chans)
        spower == sort([k \in 1..chan_count |-> pw[k]])
    IN  IF chan_count > 0
        THEN avg(spower, chan_count - (4 * chan_count) \div 10)
        ELSE <<0, 1>>

\* mutant: power[i] < a skips the channel
Skipped_Less(p, t) == p * t[2] < t[1]

\* power[i] <= a, with a = t[1] / t[2]
Skipped(p, t) == p * t[2] <= t[1]

\* a read of g_kal_exit_req by the driver
SeesFlag == observed' = (observed \/ g_kal_exit_req)

\* while (i >= 0) at the end of pass 2's body
Pass2While(c) == IF c >= 0 THEN <<"p2", "head">> ELSE <<"main", "return0">>

\* main calls c0_detect(u, bi): the band check, start(), flush(), and pass 1
\* begins at the band's first channel
C0Detect(b) ==
    /\ ~exited
    /\ dpc = <<"main", "none">>
    /\ bi' = b
    /\ IF b = BI_NOT_DEFINED
       THEN /\ result' = <<-1>>
            /\ dpc' = <<"main", "done">>
            /\ UNCHANGED <<arfcn, power>>
       ELSE /\ power' = [c \in Chans |-> 0]
            /\ arfcn' = first_chan(b)
            /\ dpc' = <<"p1", "head">>
            /\ UNCHANGED result
    /\ UNCHANGED <<ringvars, srcquiet, g_kal_exit_req, fill_ret, overruns_out,
                   tunevars, sigvars, observed, thresh, found_count,
                   notfound_count, attempted, offvars,
                   foundvars,
                   detvars>>

\* for (...; i >= 0; ...) { if (g_kal_exit_req) break;
\* if (i >= MAX_ARFCN) continue; ...
Pass1Head ==
    /\ ~exited
    /\ dpc = <<"p1", "head">>
    /\ IF arfcn < 0
       THEN dpc' = <<"p1", "end">> /\ UNCHANGED <<observed, arfcn>>
       ELSE /\ SeesFlag
            /\ IF g_kal_exit_req
               THEN dpc' = <<"p1", "end">> /\ UNCHANGED arfcn
               ELSE IF arfcn >= MAX_ARFCN
                    THEN arfcn' = next_chan(arfcn, bi) /\ UNCHANGED dpc
                    ELSE dpc' = <<"p1", "tune">> /\ UNCHANGED arfcn
    /\ UNCHANGED <<ringvars, srcquiet, g_kal_exit_req, fill_ret, overruns_out,
                   tunevars, sigvars, result, bi, power, thresh, found_count,
                   notfound_count, attempted, offvars,
                   foundvars,
                   detvars>>

\* freq = arfcn_to_freq(i, &bi); if (u->tune(freq) != 0) ...
DrvTune(p, r) ==
    /\ ~exited
    /\ dpc = <<p, "tune">>
    /\ freq' = arfcn_to_freq(arfcn, bi)
    /\ tune(freq', r)
    /\ dpc' = IF tune_ret' = <<0>> THEN <<p, "flush">>
                                   ELSE <<p, "tune_failed">>
    /\ attempted' = IF p = "p2" THEN attempted \cup {arfcn} ELSE attempted
    /\ UNCHANGED <<ringvars, srcquiet, g_kal_exit_req, fill_ret, overruns_out,
                   sigvars, result, observed, bi, arfcn, power, thresh,
                   found_count, notfound_count, offvars,
                   foundvars,
                   detvars>>

\* ... { if (g_kal_exit_req) break; fprintf(...); delete detector; ...
DrvTuneFailed(p) ==
    /\ ~exited
    /\ dpc = <<p, "tune_failed">>
    /\ SeesFlag
    /\ dpc' = IF g_kal_exit_req
              THEN IF p = "p1" THEN <<"p1", "end">> ELSE <<"main", "return0">>
              ELSE <<"main", "error">>
    /\ UNCHANGED <<ringvars, srcquiet, g_kal_exit_req, fill_ret, overruns_out,
                   tunevars, sigvars, result, c0vars, offvars,
                   detvars>>

\* do { u->flush(); ...
DrvFlush(p) ==
    /\ ~exited
    /\ dpc = <<p, "flush">>
    /\ cb' = flush(cb)
    /\ flushed' = TRUE
    /\ dpc' = <<p, "fill">>
    /\ UNCHANGED <<callvars, nxt, srcquiet, g_kal_exit_req, fill_ret,
                   overruns_out, m_center_freq, m_resampler, tune_ret, freq,
                   tuned, sigvars, result, observed, c0vars, offvars,
                   detvars>>

\* what a fill leaves: -1 and nothing else, or 0 with the counted drops in
\* *overruns and at least the samples asked for in the ring (k of them came
\* through the resampler).  A fill that finds the exit flag set returns -1.
SourceFills(r, ov, k) ==
    /\ g_kal_exit_req => r = -1
    /\ fill_ret' = <<r>>
    /\ IF r = 0
       THEN /\ overruns_out' = <<ov>>
            /\ cb' = write(cb, Fresh(k), k, "asc").cb
            /\ Enough(data_available(cb'), FrameLen)
            /\ m_resampler' = "history"
       ELSE UNCHANGED <<overruns_out, cb, m_resampler>>

\* mutant: the do-while does not look at overruns
AfterFill_Once(p, r, ov) ==
    IF r # 0 THEN <<p, "fill_failed">> ELSE <<p, "filled">>

\* where the driver goes on a fill that returned r and reported ov: the
\* failure branch, another round of the do-while, or past it
AfterFill(p, r, ov) ==
    IF r # 0 THEN <<p, "fill_failed">>
    ELSE IF ov # 0 THEN <<p, "flush">>
    ELSE <<p, "filled">>

\* ... if (u->fill(len, &overruns)) {...} } while (overruns);
\* (offset_detect: if (new_overruns) u->flush(); } while (new_overruns);)
DrvFill(p, r, ov, k) ==
    /\ ~exited
    /\ dpc = <<p, "fill">>
    /\ SourceFills(r, ov, k)
    /\ dpc' = AfterFill(p, r, ov)
    /\ UNCHANGED <<callvars, nxt, srcquiet, g_kal_exit_req, m_center_freq,
                   tune_ret, freq, sigvars, result, observed, c0vars, offvars,
                   detvars, tuned, flushed>>

\* mutant: a failed fill is an error whatever the flag says
DrvFillFailed_NoCheck(p) ==
    /\ ~exited
    /\ dpc = <<p, "fill_failed">>
    /\ dpc' = <<"main", "error">>
    /\ UNCHANGED <<ringvars, srcquiet, g_kal_exit_req, fill_ret, overruns_out,
                   tunevars, sigvars, result, observed, c0vars, offvars,
                   detvars>>

\* ... { if (g_kal_exit_req) break; fprintf(...); delete detector; ...
\* (the break leaves the do-while)
DrvFillFailed(p) ==
    /\ ~exited
    /\ dpc = <<p, "fill_failed">>
    /\ SeesFlag
    /\ dpc' = IF g_kal_exit_req THEN <<p, "filled">> ELSE <<"main", "error">>
    /\ UNCHANGED <<ringvars, srcquiet, g_kal_exit_req, fill_ret, overruns_out,
                   tunevars, sigvars, result, c0vars, offvars,
                   detvars>>

\* if (g_kal_exit_req) break; b = peek(&b_len); power[i] = sqrt(norm2(b))
Pass1Measure(n) ==
    /\ ~exited
    /\ dpc = <<"p1", "filled">>
    /\ SeesFlag
    /\ IF g_kal_exit_req
       THEN dpc' = <<"p1", "end">> /\ UNCHANGED <<power, arfcn>>
       ELSE /\ power' = [power EXCEPT ![arfcn] = n]
            /\ arfcn' = next_chan(arfcn, bi)
            /\ dpc' = <<"p1", "head">>
    /\ UNCHANGED <<ringvars, srcquiet, g_kal_exit_req, fill_ret, overruns_out,
                   tunevars, sigvars, result, bi, thresh, found_count,
                   notfound_count, attempted, offvars,
                   foundvars,
                   detvars>>

\* if (g_kal_exit_req) { delete detector; return 0; } the threshold;
\* found_count = 0; notfound_count = 0; i = first_chan(bi)
Pass1End ==
    /\ ~exited
    /\ dpc = <<"p1", "end">>
    /\ SeesFlag
    /\ IF g_kal_exit_req
       THEN /\ result' = <<0>>
            /\ dpc' = <<"main", "done">>
            /\ UNCHANGED <<thresh, found_count, notfound_count, arfcn>>
       ELSE /\ thresh' = Threshold(power)
            /\ found_count' = 0 /\ notfound_count' = 0
            /\ arfcn' = first_chan(bi)
            /\ dpc' = <<"p2", "head">>
            /\ UNCHANGED result
    /\ UNCHANGED <<ringvars, srcquiet, g_kal_exit_req, fill_ret, overruns_out,
                   tunevars, sigvars, bi, power, attempted, offvars,
                   foundvars,
                   detvars>>

\* do { if (g_kal_exit_req) break; if (i >= MAX_ARFCN) {...; continue;}
\* if (power[i] <= a) { i = next_chan(i, bi); continue; } ...
Pass2Head ==
    /\ ~exited
    /\ dpc = <<"p2", "head">>
    /\ SeesFlag
    /\ IF g_kal_exit_req
       THEN dpc' = <<"main", "return0">> /\ UNCHANGED arfcn
       ELSE IF arfcn >= MAX_ARFCN \/ Skipped(power[arfcn], thresh)
            THEN /\ arfcn' = next_chan(arfcn, bi)
                 /\ dpc' = Pass2While(arfcn')
            ELSE dpc' = <<"p2", "tune">> /\ UNCHANGED arfcn
    /\ UNCHANGED <<ringvars, srcquiet, g_kal_exit_req, fill_ret, overruns_out,
                   tunevars, sigvars, result, bi, power, thresh, found_count,
                   notfound_count, attempted, offvars,
                   foundvars,
                   detvars>>

\* GSM_RATE / 4 = 67708.3 Hz, the FCCH tone; frequencies are in units of
\* 100 Hz here
GSM_RATE_4 == 677

\* FCCH_OFFSET_MAX = 40e3f
FCCH_OFFSET_MAX == 400

\* main: float tuner_error = 0.0f, handed to offset_detect
tuner_error == 0

\* the frequencies scan reports through *offset: the tone's, just off it
\* either way, exactly FCCH_OFFSET_MAX above it, and further than that below
RawOffsets ==
    {GSM_RATE_4 + d : d \in {-(FCCH_OFFSET_MAX + 1), -1, 1, FCCH_OFFSET_MAX}}

\* fabs, fabsf
fabs(x) == IF x < 0 THEN -x ELSE x

\* mutant: every detection is taken
InRange_Any(effective_offset) == TRUE

\* fabsf(effective_offset) < FCCH_OFFSET_MAX
InRange(effective_offset) == fabs(effective_offset) < FCCH_OFFSET_MAX

\* fmin, fmax
fmin(x, y) == IF x < y THEN x ELSE y

fmax(x, y) == IF x > y THEN x ELSE y

\* if (g_kal_exit_req) break; b = peek(&b_len); r = detector->scan(b, b_len,
\* &offset, 0); effective_offset = offset - GSM_RATE / 4;
\* found and in range: min_offset, max_offset, found_count++,
\* notfound_count = 0, next channel;
\* otherwise notfound_count += 1 and the next channel after NOTFOUND_MAX
Pass2Scan(r, offset) ==
    /\ ~exited
    /\ dpc = <<"p2", "filled">>
    /\ SeesFlag
    /\ IF g_kal_exit_req
       THEN /\ dpc' = <<"main", "return0">>
            /\ UNCHANGED <<arfcn, found_count, notfound_count, foundvars>>
       ELSE /\ IF r # 0 /\ InRange(offset - GSM_RATE_4)
               THEN /\ LET effective_offset == offset - GSM_RATE_4
                       IN  IF found_count # 0
                           THEN /\ min_offset' =
                                       fmin(min_offset, effective_offset)
                                /\ max_offset' =
                                       fmax(max_offset, effective_offset)
                           ELSE /\ min_offset' = effective_offset
                                /\ max_offset' = effective_offset
                    /\ found_count' = found_count + 1
                    /\ notfound_count' = 0
                    /\ arfcn' = next_chan(arfcn, bi)
               ELSE /\ UNCHANGED <<found_count, foundvars>>
                    /\ IF GivesUp(notfound_count + 1)
                       THEN /\ notfound_count' = 0
                            /\ arfcn' = next_chan(arfcn, bi)
                       ELSE /\ notfound_count' = notfound_count + 1
                            /\ UNCHANGED arfcn
            /\ dpc' = Pass2While(arfcn')
    /\ UNCHANGED <<ringvars, srcquiet, g_kal_exit_req, fill_ret, overruns_out,
                   tunevars, sigvars, result, bi, power, thresh, attempted,
                   offvars,
                   detvars>>

\* delete detector; return 0
Return0 ==
    /\ ~exited
    /\ dpc = <<"main", "return0">>
    /\ result' = <<0>>
    /\ dpc' = <<"main", "done">>
    /\ UNCHANGED <<ringvars, srcquiet, g_kal_exit_req, fill_ret, overruns_out,
                   tunevars, sigvars, observed, c0vars, offvars,
                   detvars>>

\* mutant: the error path returns 0
ReturnError_Zero ==
    /\ ~exited
    /\ dpc = <<"main", "error">>
    /\ result' = <<0>>
    /\ dpc' = <<"main", "done">>
    /\ UNCHANGED <<ringvars, srcquiet, g_kal_exit_req, fill_ret, overruns_out,
                   tunevars, sigvars, observed, c0vars, offvars,
                   detvars>>

\* fprintf(stderr, "error: ..."); delete detector; return -1
ReturnError ==
    /\ ~exited
    /\ dpc = <<"main", "error">>
    /\ result' = <<-1>>
    /\ dpc' = <<"main", "done">>
    /\ UNCHANGED <<ringvars, srcquiet, g_kal_exit_req, fill_ret, overruns_out,
                   tunevars, sigvars, observed, c0vars, offvars,
                   detvars>>

\* mutant: a handler that only sets the flag
sighandler_SetOnly ==
    /\ g_kal_exit_req' = TRUE
    /\ UNCHANGED exited

\* if (g_kal_exit_req) { write(2, ...); _exit(1); } write(2, ...);
\* g_kal_exit_req = 1
sighandler ==
    IF g_kal_exit_req
    THEN exited' = TRUE /\ UNCHANGED g_kal_exit_req
    ELSE g_kal_exit_req' = TRUE /\ UNCHANGED exited

\* SIGINT is delivered to the running process
Sigint ==
    /\ ~exited
    /\ dpc # <<"main", "done">>
    /\ signals < MaxSignals
    /\ signals' = signals + 1
    /\ sighandler
    /\ UNCHANGED <<ringvars, srcquiet, fill_ret, overruns_out, tunevars, dpc,
                   result, observed, c0vars, offvars, detvars>>

(* ---- offset_detect ---- *)

\* TARGET_COUNT = 100, scaled down
TARGET_COUNT == 2

\* MAX_ITERATIONS = 500, scaled down
MAX_ITERATIONS == 4

\* mutant: the loop goes on until both limits are reached
Collecting_Either(c, it) == c < TARGET_COUNT \/ it < MAX_ITERATIONS

\* while (count < TARGET_COUNT && iterations < MAX_ITERATIONS)
Collecting(c, it) == c < TARGET_COUNT /\ it < MAX_ITERATIONS

\* main calls offset_detect(u, 0, tuner_error) on the channel it has tuned
\* to: new_overruns = 0, count = 0, iterations = 0; start(); flush()
OffsetDetect ==
    /\ ~exited
    /\ dpc = <<"main", "none">>
    /\ overruns_out' = <<0>>
    /\ count' = 0 /\ iterations' = 0 /\ notfound' = 0
    /\ offsets' = <<>>
    /\ report' = <<>>
    /\ cb' = flush(cb)
    /\ dpc' = <<"off", "head">>
    /\ UNCHANGED <<callvars, nxt, srcquiet, g_kal_exit_req, fill_ret, tunevars,
                   sigvars, result, observed, c0vars,
                   detvars>>

\* while (...) { if (g_kal_exit_req) break; iterations++; ...
OffsetHead ==
    /\ ~exited
    /\ dpc = <<"off", "head">>
    /\ IF ~Collecting(count, iterations)
       THEN dpc' = <<"off", "end">> /\ UNCHANGED <<observed, iterations>>
       ELSE /\ SeesFlag
            /\ IF g_kal_exit_req
               THEN dpc' = <<"off", "end">> /\ UNCHANGED iterations
               ELSE /\ iterations' = iterations + 1
                    /\ dpc' = <<"off", "fill">>
    /\ UNCHANGED <<ringvars, srcquiet, g_kal_exit_req, fill_ret, overruns_out,
                   tunevars, sigvars, result, c0vars, count, offsets,
                   notfound, report,
                   detvars>>

\* if (g_kal_exit_req) break; cbuf = peek(&b_len);
\* if (l->scan(cbuf, b_len, &offset, &consumed)) { offset = offset -
\* GSM_RATE / 4 - tuner_error; if (fabs(offset) < FCCH_OFFSET_MAX) {
\* offsets[count] = offset; count++; } } else {
\* notfound++; if (consumed == 0) consumed = s_len; } cb->purge(consumed)
OffsetScan(r, raw) ==
    /\ ~exited
    /\ dpc = <<"off", "filled">>
    /\ SeesFlag
    /\ IF g_kal_exit_req
       THEN /\ dpc' = <<"off", "end">>
            /\ UNCHANGED <<cb, count, offsets, notfound>>
       ELSE /\ LET b_len_ == peek(cb).len
                   consumed == IF r = 0 /\ b_len_ = 0 THEN FrameLen ELSE b_len_
               IN  cb' = purge(cb, consumed).cb
            /\ LET offset == raw - GSM_RATE_4 - tuner_error
               IN  IF r # 0 /\ InRange(offset)
                   THEN /\ offsets' =
                               (count :> <<offset, iterations>>) @@ offsets
                        /\ count' = count + 1
                   ELSE UNCHANGED <<count, offsets>>
            /\ notfound' = IF r = 0 THEN notfound + 1 ELSE notfound
            /\ dpc' = <<"off", "head">>
    /\ UNCHANGED <<callvars, nxt, srcquiet, g_kal_exit_req, fill_ret,
                   overruns_out, tunevars, sigvars, result, c0vars,
                   iterations, report,
                   detvars>>

\* u->stop(); delete l; if (g_kal_exit_req) return 0
OffsetEnd ==
    /\ ~exited
    /\ dpc = <<"off", "end">>
    /\ SeesFlag
    /\ IF g_kal_exit_req
       THEN result' = <<0>> /\ dpc' = <<"main", "done">>
       ELSE dpc' = <<"off", "analysis">> /\ UNCHANGED result
    /\ UNCHANGED <<ringvars, srcquiet, g_kal_exit_req, fill_ret, overruns_out,
                   tunevars, sigvars, c0vars, offvars,
                   detvars>>

\* the array float offsets[] as a sequence
Array(f, len) == [k \in 1..len |-> f[k - 1][1]]

\* mutant: no outlier is dropped
Outliers_Never(len) == 0

\* mutant: outliers are dropped from five offsets on, one at least
Outliers_FromFive(len) == IF len >= 5 THEN (len + 9) \div 10 ELSE 0

\* unsigned int threshold = 0; if (count >= 10) threshold = count / 10
Outliers(len) == IF len >= 10 THEN len \div 10 ELSE 0

\* sort(offsets, count); threshold; avg_offset = avg(offsets + threshold,
\* count - 2 * threshold, &stddev); min = offsets[threshold];
\* max = offsets[count - threshold - 1]: what the analysis prints, and the
\* part of the array it took the mean of
Analysis(data, len) ==
    LET sorted == sort(data)
        threshold == Outliers(len)
    IN  [ avg_offset |-> avg(SubSeq(sorted, threshold + 1, len),
                             len - 2 * threshold),
          min    |-> sorted[threshold + 1],
          max    |-> sorted[len - threshold],
          window |-> SubSeq(sorted, threshold + 1, len - threshold) ]

\* mutant: the analysis returns 0 without a single offset
OffsetAnalysis_Always0 ==
    /\ ~exited
    /\ dpc = <<"off", "analysis">>
    /\ IF count = 0
       THEN result' = <<0>> /\ UNCHANGED report
       ELSE /\ report' = <<Analysis(Array(offsets, count), count)>>
            /\ result' = <<0>>
    /\ dpc' = <<"main", "done">>
    /\ UNCHANGED <<ringvars, srcquiet, g_kal_exit_req, fill_ret, overruns_out,
                   tunevars, sigvars, observed, c0vars, count, iterations,
                   offsets, notfound,
                   detvars>>

\* if (count == 0) { printf("Error: No valid FCCH bursts ..."); return -1; }
\* sort, trim, avg, printf; return 0.  (offsets[] is sorted in place; it is
\* a local array that ends with the call, and its sorted order is kept in
\* report.)
OffsetAnalysis ==
    /\ ~exited
    /\ dpc = <<"off", "analysis">>
    /\ IF count = 0
       THEN result' = <<-1>> /\ UNCHANGED report
       ELSE /\ report' = <<Analysis(Array(offsets, count), count)>>
            /\ result' = <<0>>
    /\ dpc' = <<"main", "done">>
    /\ UNCHANGED <<ringvars, srcquiet, g_kal_exit_req, fill_ret, overruns_out,
                   tunevars, sigvars, observed, c0vars, count, iterations,
                   offsets, notfound,
                   detvars>>

(* ---- the process ---- *)

\* the loops that tune: pass 1 and pass 2 of c0_detect
TunePhases == {"p1", "p2"}

\* the loops that fill
FillPhases == {"p1", "p2", "off"}

ScanInit == SourceInit

ScanNext ==
    \/ \E b \in Bands : C0Detect(b)
    \/ Pass1Head
    \/ \E p \in TunePhases, r \in {"HYDRASDR_SUCCESS", "HYDRASDR_ERROR"} :
          DrvTune(p, r)
    \/ \E p \in TunePhases : DrvTuneFailed(p)
    \/ \E p \in FillPhases : DrvFlush(p)
    \/ \E p \in FillPhases, r \in {0, -1}, ov \in 0..MaxOverflow,
          k \in 1..capacity(cb) : DrvFill(p, r, ov, k)
    \/ \E p \in FillPhases : DrvFillFailed(p)
    \/ \E n \in 0..MaxPower : Pass1Measure(n)
    \/ Pass1End
    \/ Pass2Head
    \/ \E r \in {0, 1}, offset \in RawOffsets : Pass2Scan(r, offset)
    \/ Return0
    \/ ReturnError
    \/ OffsetDetect
    \/ OffsetHead
    \/ \E r \in {0, 1}, raw \in RawOffsets : OffsetScan(r, raw)
    \/ OffsetEnd
    \/ OffsetAnalysis
    \/ Sigint

ScanSpec == ScanInit /\ [][ScanNext]_vars

----------------------------------------------------------------------------
(* Vocabulary of the driver claims *)

\* this step is a fill returning to the driver
DrvFillStep == dpc[2] = "fill" /\ dpc' # dpc

\* this step is the driver handing the peeked buffer to the power
\* measurement (pass 1) or to the detector's scan (pass 2, offset_detect)
Measures == dpc[2] = "filled" /\ ~g_kal_exit_req /\ dpc' # dpc

\* this step is the driver's u->flush() inside a fill loop
DrvFlushStep == dpc[2] = "flush" /\ dpc' # dpc

(* C13: the scan driver never runs the FCCH detector (or the power         *)
(* measurement) on a buffer whose fill reported overruns: in c0_detect and *)
(* offset_detect, whenever fill returns a non-zero overrun count the ring  *)
(* is flushed and the fill is retried, and scan is only invoked after a    *)
(* fill that reported zero overruns.                                       *)
C13_NoScanAfterOverrun ==
    [][ /\ Measures => (fill_ret = <<0>> /\ overruns_out = <<0>>)
        /\ (DrvFillStep /\ fill_ret' = <<0>> /\ overruns_out' # <<0>>) =>
              dpc' = <<dpc[1], "flush">>
        /\ DrvFlushStep =>
              (data_available(cb') = 0 /\ dpc' = <<dpc[1], "fill">>) ]_vars

\* offset_detect, in its second iteration or later, is about to fill again:
\* the last fill reported overruns and the ring has been flushed
C13_Witness ==
    /\ dpc = <<"off", "fill">>
    /\ iterations >= 2
    /\ fill_ret = <<0>>
    /\ overruns_out # <<0>>
    /\ data_available(cb) = 0

\* this step is the driver calling u->tune
DrvTuneStep == dpc[2] = "tune" /\ dpc' # dpc

\* a scan driver that was given a band, or a channel, has returned
Returned == dpc = <<"main", "done">> /\ bi # BI_NOT_DEFINED

(* C15: cancellation: once the exit flag is set, c0_detect and             *)
(* offset_detect observe it at the next loop boundary, perform no further  *)
(* tune/scan iteration, and return 0 (never -1), including when the flag   *)
(* causes an in-progress fill or tune to fail.  Here: a driver that        *)
(* returns while the flag is set returns 0, and after it has read the flag *)
(* as set it neither tunes nor scans.                                      *)
C15_Cancellation ==
    [][ /\ (Returned' /\ g_kal_exit_req') => result' = <<0>>
        /\ observed => (~DrvTuneStep /\ ~Measures) ]_vars

(* C15, amended: once the driver has read the exit flag as set (at a loop  *)
(* boundary, after a failed tune or fill, or after its loop), it performs  *)
(* no further tune/scan iteration and returns 0 (never -1), including when *)
(* the flag causes an in-progress fill to fail; a flag that is set only    *)
(* after the driver's last read of it does not change the result.  A step  *)
(* from a loop boundary or from a failed tune or fill, taken while the     *)
(* flag is set, leaves the loop for the return of 0.                       *)
C15_CancellationAmended ==
    [][ /\ (Returned' /\ observed') => result' = <<0>>
        /\ observed => (~DrvTuneStep /\ ~Measures)
        /\ ( /\ g_kal_exit_req
             /\ dpc[2] \in {"head", "filled", "tune_failed", "fill_failed"}
             /\ dpc' # dpc ) =>
              dpc' \in {<<dpc[1], "filled">>, <<"p1", "end">>, <<"off", "end">>,
                        <<"main", "return0">>} ]_vars

\* c0_detect has returned 0 from pass 2 after a channel was found: the flag
\* made the fill fail, and the driver read it as set
C15_Witness ==
    /\ Returned /\ bi = 1
    /\ result = <<0>>
    /\ observed
    /\ fill_ret = <<-1>>
    /\ found_count > 0

(* C16: the exit flag is monotonic (set by the first signal, never         *)
(* cleared), and a second cancellation signal received while the flag is   *)
(* already set terminates the process immediately without returning to the *)
(* scan loops.                                                             *)
C16_SecondSignalExits ==
    [][ /\ g_kal_exit_req => g_kal_exit_req'
        /\ signals' >= 1 => g_kal_exit_req'
        /\ (signals' > signals /\ g_kal_exit_req) => exited'
        /\ exited => (exited' /\ UNCHANGED <<dpc, result>>) ]_vars

\* the second signal has ended the process in the middle of pass 2
C16_Witness ==
    /\ exited
    /\ signals = 2
    /\ dpc[1] = "p2"
    /\ result = <<>>

\* this step is pass 2 handing the buffer to the detector's scan
Pass2ScanStep == Measures /\ dpc[1] = "p2"

(* C17: in pass 2 of c0_detect, if five consecutive scans of the same      *)
(* channel fail (no FCCH found or offset out of range), the driver         *)
(* advances to the next channel; a found channel advances immediately and  *)
(* resets the failure counter.                                             *)
C17_FiveFailures ==
    [][ Pass2ScanStep =>
           IF found_count' > found_count
           THEN arfcn' = next_chan(arfcn, bi) /\ notfound_count' = 0
           ELSE IF notfound_count + 1 >= 5
                THEN arfcn' = next_chan(arfcn, bi) /\ notfound_count' = 0
                ELSE arfcn' = arfcn /\ notfound_count' = notfound_count + 1
      ]_vars

(* C17, amended: in pass 2 of c0_detect, if ten consecutive scans of the   *)
(* same channel fail (no FCCH found or offset out of range), the driver    *)
(* advances to the next channel; a found channel advances immediately and  *)
(* resets the failure counter.                                             *)
C17_TenFailures ==
    [][ Pass2ScanStep =>
           IF found_count' > found_count
           THEN arfcn' = next_chan(arfcn, bi) /\ notfound_count' = 0
           ELSE IF notfound_count + 1 >= 10
                THEN arfcn' = next_chan(arfcn, bi) /\ notfound_count' = 0
                ELSE arfcn' = arfcn /\ notfound_count' = notfound_count + 1
      ]_vars

\* pass 2 has given up a channel it tuned to and found nothing on, and is at
\* the next one with the failure counter back at 0
C17_Witness ==
    /\ dpc = <<"p2", "head">>
    /\ attempted # {}
    /\ found_count = 0
    /\ notfound_count = 0
    /\ arfcn > 0 /\ arfcn \notin attempted

\* the channels whose pass-1 power strictly exceeds the threshold a
AboveThreshold ==
    {c \in Chans \cap DOMAIN power : power[c] * thresh[2] > thresh[1]}

\* pass 2 has a channel in hand: it tunes to it, fills or scans
Pass2Busy ==
    /\ dpc[1] = "p2"
    /\ dpc[2] \in {"tune", "tune_failed", "flush", "fill", "fill_failed",
                   "filled"}

(* C18: in pass 2 of c0_detect, a channel is tuned and scanned only if its *)
(* pass-1 power strictly exceeds the threshold a; channels with power <= a *)
(* are skipped without any tune, fill or scan, and every channel of the    *)
(* band with power > a is attempted at least once unless cancelled or a    *)
(* device error occurs.                                                    *)
C18_OnlyAboveThreshold ==
    /\ Pass2Busy => arfcn \in AboveThreshold
    /\ attempted \subseteq AboveThreshold
    /\ (Returned /\ bi = 1 /\ result = <<0>> /\ ~observed) =>
          attempted = AboveThreshold

\* c0_detect has gone through the band undisturbed: it tried some channels
\* and skipped others, one of them with a power equal to the threshold
C18_Witness ==
    /\ Returned /\ bi = 1 /\ result = <<0>> /\ ~observed
    /\ attempted # {}
    /\ \E c \in Chans \cap DOMAIN power :
          /\ c \notin attempted
          /\ power[c] * thresh[2] = thresh[1]
          /\ power[c] > 0

\* c0_detect has returned
C0Returned == dpc = <<"main", "done">> /\ bi \in Bands

\* the last tune or fill failed and the driver did not see a cancellation
FailedUncancelled ==
    (tune_ret = <<-1>> \/ fill_ret = <<-1>>) /\ ~observed

(* C19: c0_detect returns 0 on every path except when a tune or fill fails *)
(* (without cancellation), in which case it returns -1.                    *)
C19_ReturnCode ==
    C0Returned =>
       /\ result \in {<<0>>, <<-1>>}
       /\ result = <<-1>> <=> FailedUncancelled

(* C19, amended: c0_detect returns 0 on every path except when the band is *)
(* not defined or when a tune or fill fails (without the driver seeing a   *)
(* cancellation), in which cases it returns -1.                            *)
C19_ReturnCodeAmended ==
    C0Returned =>
       /\ result \in {<<0>>, <<-1>>}
       /\ result = <<-1>> <=> (bi = BI_NOT_DEFINED \/ FailedUncancelled)

\* c0_detect has returned -1 on a fill that failed in pass 2, after it had
\* found a channel
C19_Witness ==
    /\ C0Returned /\ bi = 1
    /\ result = <<-1>>
    /\ fill_ret = <<-1>>
    /\ found_count > 0

\* offset_detect is inside an iteration of its collection loop
OffsetBusy ==
    /\ dpc[1] = "off"
    /\ dpc[2] \in {"flush", "fill", "fill_failed", "filled"}

(* C20: offset_detect's collection loop stops as soon as 100 valid offsets *)
(* are stored or 500 iterations have run, whichever comes first: in every  *)
(* reachable state count <= 100 and iterations <= 500, each iteration      *)
(* stores at most one offset, offsets are stored at indices 0..count-1 in  *)
(* arrival order, and no write ever goes past index 99.  (The two limits   *)
(* are TARGET_COUNT and MAX_ITERATIONS; an offset carries the number of    *)
(* the iteration that stored it.)                                          *)
C20_CollectionBounds ==
    /\ count <= TARGET_COUNT
    /\ iterations <= MAX_ITERATIONS
    /\ OffsetBusy => (count < TARGET_COUNT /\ iterations >= 1)
    /\ DOMAIN offsets = 0..(count - 1)
    /\ DOMAIN offsets \subseteq 0..(TARGET_COUNT - 1)
    /\ \A k \in DOMAIN offsets :
          /\ offsets[k][2] \in 1..iterations
          /\ k > 0 => offsets[k - 1][2] < offsets[k][2]

\* the loop has ended on its target with iterations to spare, one of which
\* stored nothing
C20_Witness ==
    /\ dpc = <<"off", "end">>
    /\ count = TARGET_COUNT
    /\ iterations < MAX_ITERATIONS
    /\ iterations > count

----------------------------------------------------------------------------
(* The detections the drivers take: C21, C24 *)

\* this step is offset_detect handing the buffer to the detector's scan
OffsetScanStep == Measures /\ dpc[1] = "off"

\* offset_detect has returned
OffsetReturned == dpc = <<"main", "done">> /\ bi \notin Bands

\* no tune or fill has failed and no cancellation was asked for
Undisturbed ==
    /\ ~g_kal_exit_req
    /\ tune_ret # <<-1>>
    /\ fill_ret # <<-1>>

(* C21: a detection whose offset from the ideal FCCH position (raw offset  *)
(* minus GSM_RATE/4) exceeds 40 kHz in magnitude is discarded: it is never *)
(* stored in the offsets array by offset_detect and never counted or       *)
(* printed as a found channel by c0_detect (where it counts as a failed    *)
(* scan).  Here: no stored offset and no offset of a found channel exceeds *)
(* FCCH_OFFSET_MAX; a scan of offset_detect stores one offset or none; a   *)
(* scan of pass 2 that does not count a found channel counts a failure.    *)
C21_WildOffsetsDiscarded ==
    [][ /\ \A k \in DOMAIN offsets' :
              fabs(offsets'[k][1]) <= FCCH_OFFSET_MAX
        /\ found_count' > 0 =>
              /\ fabs(min_offset') <= FCCH_OFFSET_MAX
              /\ fabs(max_offset') <= FCCH_OFFSET_MAX
              /\ min_offset' <= max_offset'
        /\ OffsetScanStep =>
              /\ count' \in {count, count + 1}
              /\ \A k \in DOMAIN offsets : offsets'[k] = offsets[k]
        /\ (Pass2ScanStep /\ found_count' = found_count) =>
              /\ UNCHANGED foundvars
              /\ \/ notfound_count' = notfound_count + 1
                 \/ notfound_count' = 0 /\ arfcn' = next_chan(arfcn, bi)
      ]_vars

\* offset_detect has stored an offset, and in another iteration it had a
\* detection that it did not store
C21_Witness ==
    /\ dpc = <<"off", "head">>
    /\ ~g_kal_exit_req
    /\ count > 0
    /\ iterations > count + notfound

(* C24: no-detection is never an error: when scans complete without        *)
(* finding an FCCH (and no device error or cancellation occurs), the       *)
(* outcome is only recorded in counters and neither offset_detect nor      *)
(* c0_detect returns an error code.                                        *)
C24_NoDetectionNoError ==
    (dpc = <<"main", "done">> /\ bi # BI_NOT_DEFINED /\ Undisturbed) =>
       result = <<0>>

(* C24, amended: a scan that finds no FCCH is never an error in itself: it *)
(* is only recorded in counters, and c0_detect returns 0 however few       *)
(* channels it found; offset_detect returns 0 as soon as one valid offset  *)
(* was stored, but -1 when its loop ends without a single valid offset     *)
(* (and no device error or cancellation occurs).                           *)
C24_NoDetectionAmended ==
    /\ (dpc = <<"main", "done">> /\ bi # BI_NOT_DEFINED /\ Undisturbed) =>
          (result = <<-1>> <=> (OffsetReturned /\ count = 0))
    /\ (dpc = <<"main", "done">> /\ bi # BI_NOT_DEFINED /\ Undisturbed) =>
          result \in {<<0>>, <<-1>>}
    /\ notfound <= iterations - count

\* offset_detect has run all its iterations, none of them found an FCCH,
\* and it has returned -1
C24_Witness ==
    /\ OffsetReturned /\ Undisturbed
    /\ iterations = MAX_ITERATIONS
    /\ notfound = iterations
    /\ count = 0
    /\ result = <<-1>>

----------------------------------------------------------------------------
(* AnalysisSpec: the analysis of offset_detect on every array of offsets   *)
(* of up to MaxCount entries, and the analysis applied again to the part   *)
(* of the array it took the mean of.                                       *)

\* the offsets collected (100 at most in the program)
MaxCount == 12

\* offset_detect's loop has ended with count offsets in offsets[]
AnalysisInit ==
    /\ cb = SampleRing
    /\ crashed = FALSE
    /\ op = "new" /\ arg = 0 /\ ret = 0 /\ ptr = 0 /\ dst = <<>>
    /\ nxt = 1
    /\ fifo = <<>>
    /\ dev = TRUE
    /\ SrcMembers
    /\ SigIdle
    /\ C0Idle
    /\ dpc = <<"off", "analysis">> /\ result = <<>>
    /\ count \in 0..MaxCount
    /\ iterations = count
    /\ \E v \in [0..(count - 1) -> {-1, 1}] :
          offsets = [k \in 0..(count - 1) |-> <<v[k], k + 1>>]
    /\ notfound = 0 /\ report = <<>>

\* the sort / trim / mean procedure is given the array that remained after
\* its trim
Reapply ==
    /\ dpc = <<"main", "done">>
    /\ report # <<>>
    /\ LET w == report[1].window
       IN  /\ Len(w) < count
           /\ offsets' = [k \in 0..(Len(w) - 1) |-> <<w[k + 1], k + 1>>]
           /\ count' = Len(w)
    /\ dpc' = <<"off", "analysis">>
    /\ result' = <<>>
    /\ UNCHANGED <<ringvars, srcquiet, g_kal_exit_req, fill_ret, overruns_out,
                   tunevars, sigvars, observed, c0vars, iterations, notfound,
                   report,
                   detvars>>

AnalysisNext ==
    \/ OffsetAnalysis
    \/ Reapply

AnalysisSpec == AnalysisInit /\ [][AnalysisNext]_vars

\* the two means, kept as <<sum, len>>, are equal
SameMean(m, n) == m[2] > 0 /\ n[2] > 0 /\ m[1] * n[2] = n[1] * m[2]

\* the offsets with the lowest and the highest tenth (rounded down) left out
\* when there are ten or more, in ascending order
Interior(data) ==
    LET n == Len(data)
        tenth == IF n >= 10 THEN n \div 10 ELSE 0
    IN  SubSeq(sort(data), tenth + 1, n - tenth)

(* C22: offset aggregation: when count >= 10 offsets were collected, the   *)
(* mean reported by offset_detect equals the arithmetic mean of the        *)
(* interior 80% of the ascending-sorted offsets (top and bottom 10%        *)
(* dropped), for every count in 10..100; when count < 10 it is the mean of *)
(* all collected offsets.                                                  *)
C22_TrimmedMean ==
    (dpc = <<"main", "done">> /\ result = <<0>> /\ report # <<>>) =>
       LET interior == Interior(Array(offsets, count))
       IN  /\ SameMean(report[1].avg_offset,
                       <<SumSeq(interior), Len(interior)>>)
           /\ count < 10 => Len(interior) = count
           /\ count >= 10 => Len(interior) = count - 2 * (count \div 10)

\* twelve offsets were collected, the mean is that of the middle ten, and it
\* is not the mean of the twelve
C22_Witness ==
    /\ dpc = <<"main", "done">> /\ result = <<0>> /\ report # <<>>
    /\ count = 12 /\ iterations = 12
    /\ Len(report[1].window) = 10
    /\ ~SameMean(report[1].avg_offset,
                 <<SumSeq(Array(offsets, count)), count>>)

\* this step is the analysis run on the array that remained after a trim
Reanalysis ==
    /\ dpc = <<"off", "analysis">>
    /\ report # <<>>
    /\ dpc' = <<"main", "done">>

(* C23: sort-then-trim-then-mean is idempotent on an already-trimmed       *)
(* array: applying offset_detect's sort / 10%-trim / mean procedure to the *)
(* array that remained after a first trim yields the same window and the   *)
(* same mean as the first application.                                     *)
C23_Idempotent ==
    [][ Reanalysis =>
           /\ report'[1].window = report[1].window
           /\ SameMean(report'[1].avg_offset, report[1].avg_offset) ]_vars

(* C23, amended: sort-then-trim-then-mean is idempotent on an              *)
(* already-trimmed array of fewer than 10 offsets: applying the procedure  *)
(* to the array that remained after a first trim yields the same window    *)
(* and the same mean as the first application when fewer than 10 offsets   *)
(* remained (count 10 or 11); an array of 10 or more is trimmed again.     *)
C23_IdempotentAmended ==
    [][ Reanalysis =>
           /\ count < 10 =>
                 /\ report'[1].window = report[1].window
                 /\ SameMean(report'[1].avg_offset, report[1].avg_offset)
           /\ count >= 10 =>
                 Len(report'[1].window) < Len(report[1].window) ]_vars

\* the procedure has been applied to the nine offsets that remained of
\* eleven, and has given the window it was given
C23_Witness ==
    /\ dpc = <<"main", "done">> /\ report # <<>>
    /\ iterations = 11
    /\ count = 9
    /\ report[1].window = Array(offsets, count)
    /\ \E k \in 1..8 : report[1].window[k] # report[1].window[k + 1]

----------------------------------------------------------------------------
(* DetectorSpec: one fcch_detector and the calls of scan made on it.       *)
(*                                                                         *)
(* The samples are not modelled, only what the detector's control flow     *)
(* reads of them: per adaptive-filter step whether the window has energy   *)
(* and the normalised error it yields, and per candidate region the        *)
(* peak-to-mean ratio freq_detect computes.  The three rings are kept by   *)
(* their contents' count (the error ring by its contents); the filter's    *)
(* weights and running error power by the number of updates made to them.  *)

\* m_filter_delay = 8, scaled down
m_filter_delay == 1

\* the prediction delay D = 4, scaled down
m_D == 1

\* m_w_len = 2 * m_filter_delay + 1
m_w_len == 2 * m_filter_delay + 1

\* room the sample ring has beyond one filter window
XSlack == 1

\* mutant: a sample ring too small for one filter window
XBufLen_Short == m_w_len + m_D - 1

\* m_x_cb = new circular_buffer(8192, sizeof(complex), 0), scaled down
XBufLen == m_w_len + m_D + XSlack

\* m_y_cb = new circular_buffer(8192, sizeof(complex), 1), scaled down
YBufLen == 2

\* m_e_cb = new circular_buffer(1015808, sizeof(float), 0)
EBufLen == 1015808

\* E_BATCH_SIZE = 512, scaled down
E_BATCH_SIZE == 2

\* MIN_FB_LEN = 100 * sps, scaled down
MIN_FB_LEN == 2

\* m_fcch_burst_len = 148 * sps, scaled down
m_fcch_burst_len == 3

MIN_PM == 50

\* the lengths scan is called with
MaxScanLen == 6

\* the filter's weights and running error power are counted modulo this
Updates == 3

\* the normalised errors a filter step yields
Errors == {0, 1}

\* 0.0f / 0.0f, the peak-to-mean ratio of a region of zero samples: not a
\* number, kept apart from the ratios of Ratios by its sign
NaN == -1

\* the peak-to-mean ratios freq_detect yields
Ratios == {0, MIN_PM, MIN_PM + 1, NaN}

\* x > y and x <= y on floats: both false when x is not a number
Gt(x, y) == x # NaN /\ x > y

Le(x, y) == x # NaN /\ x <= y

DetectorInit == SourceInit

\* the rest of the program, which a scan does not touch
others == <<ringvars, srcvars, tunevars, drvvars>>

\* scan(s, s_len, &offset, &consumed): len = 0, loff = 0, pm = 0, sum = 0,
\* e_idx = 0
ScanCall(n) ==
    /\ spc = "idle"
    /\ s_len' = n /\ stale' = m_x_cb /\ s_done' = 0
    /\ e_batch' = <<>> /\ e_sum' = 0
    /\ pm' = 0 /\ loff' = 0
    /\ e_i' = 0 /\ l_count' = 0
    /\ evaluated' = <<>>
    /\ scan_ret' = <<>> /\ offset_out' = <<>> /\ consumed_out' = <<>>
    /\ nne_ret' = <<>>
    /\ spc' = IF n > 0 THEN "write" ELSE "tail"
    /\ UNCHANGED <<m_x_cb, m_y_cb, m_e_cb, m_w, m_e, m_G, m_lth_count,
                   m_lth_state, others>>

\* while (len < s_len) { t = m_x_cb->write(s + len, s_len - len); len += t;
\* the ring takes what it has room for
ScanWrite ==
    /\ spc = "write"
    /\ LET t == MIN(s_len - s_done, XBufLen - m_x_cb)
       IN  /\ m_x_cb' = m_x_cb + t
           /\ s_done' = s_done + t
    /\ spc' = "nlms"
    /\ UNCHANGED <<s_len, stale, m_y_cb, m_e_cb, e_batch, e_sum, m_w, m_e, m_G,
                   m_lth_count, m_lth_state, e_i, l_count, pm, loff,
                   evaluated, scan_ret, offset_out, consumed_out, nne_ret,
                   others>>

\* mutant: one sample fewer is asked for
Missing_OneLess(max) ==
    LET n == m_w_len - 1
    IN  IF n + m_D > max THEN n + m_D - max + 1 ELSE 0

\* next_norm_error: if (n + m_D >= max) return n + m_D - max + 1
Missing(max) ==
    LET n == m_w_len - 1
    IN  IF n + m_D >= max THEN n + m_D - max + 1 ELSE 0

\* m_x_cb->purge(1)
Purged(x) == x - 1

\* m_y_cb->write(x + n + m_D, 1) on a ring that overwrites: the oldest sample
\* goes when the ring is full
Stored(y) == MIN(y + 1, YBufLen)

\* next_norm_error(&e): a step of the filter on the window at the head of
\* the sample ring, or the number of samples missing for one.  E_ok: the
\* window's energy E is above 1e-10; err: m_e / E (0 without energy)
next_norm_error(E_ok, err) ==
    IF Missing(m_x_cb) > 0
    THEN /\ nne_ret' = <<Missing(m_x_cb)>>
         /\ UNCHANGED <<m_x_cb, m_y_cb, m_w, m_e, m_G>>
    ELSE /\ m_G' = IF E_ok THEN "1/E" ELSE m_G
         /\ m_y_cb' = Stored(m_y_cb)
         /\ m_w' = (m_w + 1) % Updates
         /\ m_e' = (m_e + 1) % Updates
         /\ m_x_cb' = Purged(m_x_cb)
         /\ nne_ret' = <<0>>

\* m_e_cb->write(e_batch, e_idx) on a ring that does not overwrite
Batched(ring, batch) ==
    SubSeq(ring \o batch, 1, MIN(Len(ring) + Len(batch), EBufLen))

\* while (!next_norm_error(&e)) { e_batch[e_idx++] = e; sum += e;
\* if (e_idx >= E_BATCH_SIZE) { m_e_cb->write(e_batch, e_idx); e_idx = 0; } }
\* and the end of the outer loop's body
NlmsStep(E_ok, err) ==
    /\ spc = "nlms"
    /\ ~E_ok => err = 0
    /\ next_norm_error(E_ok, err)
    /\ IF nne_ret' # <<0>>
       THEN /\ spc' = IF s_done < s_len THEN "write" ELSE "tail"
            /\ UNCHANGED <<e_batch, e_sum, m_e_cb>>
       ELSE /\ e_sum' = e_sum + err
            /\ IF Len(e_batch) + 1 >= E_BATCH_SIZE
               THEN /\ m_e_cb' = Batched(m_e_cb, Append(e_batch, err))
                    /\ e_batch' = <<>>
               ELSE /\ e_batch' = Append(e_batch, err)
                    /\ UNCHANGED m_e_cb
            /\ spc' = "nlms"
    /\ UNCHANGED <<s_len, stale, s_done, m_lth_count, m_lth_state, e_i, l_count, pm,
                   loff, evaluated, scan_ret, offset_out, consumed_out,
                   others>>

\* a[i] > (float) limit, with limit = 0.7 * avg and avg = sum / e_count
AboveLimit(err, sum, e_count) == 10 * err * e_count > 7 * sum

\* if (e_idx > 0) m_e_cb->write(e_batch, e_idx); if (consumed) *consumed =
\* len; a = m_e_cb->peek(&e_count); if (e_count == 0) return 0;
\* avg, limit; low_to_high_init()
ScanTail ==
    /\ spc = "tail"
    /\ m_e_cb' = Batched(m_e_cb, e_batch)
    /\ e_batch' = <<>>
    /\ consumed_out' = <<s_done>>
    /\ IF Len(m_e_cb') = 0
       THEN /\ scan_ret' = <<0>>
            /\ spc' = "idle"
            /\ UNCHANGED <<m_lth_count, m_lth_state>>
       ELSE /\ m_lth_count' = 0
            /\ m_lth_state' = HIGH
            /\ spc' = "walk"
            /\ UNCHANGED scan_ret
    /\ UNCHANGED <<s_len, stale, s_done, m_x_cb, m_y_cb, e_sum, m_w, m_e, m_G, e_i,
                   l_count, pm, loff, evaluated, offset_out, nne_ret, others>>

\* mutant: a low region is reported while it lasts
low_to_high_EmitLow(above) ==
    IF above
    THEN IF m_lth_state = LOW
         THEN [r |-> m_lth_count, state |-> HIGH, count |-> 1]
         ELSE [r |-> 0, state |-> m_lth_state, count |-> m_lth_count + 1]
    ELSE IF m_lth_state = HIGH
         THEN [r |-> 0, state |-> LOW, count |-> 1]
         ELSE [r |-> m_lth_count, state |-> m_lth_state,
               count |-> m_lth_count + 1]

\* mutant: the counter is not reset when a low region begins
low_to_high_NoReset(above) ==
    IF above
    THEN IF m_lth_state = LOW
         THEN [r |-> m_lth_count, state |-> HIGH, count |-> 1]
         ELSE [r |-> 0, state |-> m_lth_state, count |-> m_lth_count + 1]
    ELSE IF m_lth_state = HIGH
         THEN [r |-> 0, state |-> LOW, count |-> m_lth_count + 1]
         ELSE [r |-> 0, state |-> m_lth_state, count |-> m_lth_count + 1]

\* low_to_high(e, a), with above = (e > a): what it returns and what it
\* leaves in m_lth_state and m_lth_count
low_to_high(above) ==
    IF above
    THEN IF m_lth_state = LOW
         THEN [r |-> m_lth_count, state |-> HIGH, count |-> 1]
         ELSE [r |-> 0, state |-> m_lth_state, count |-> m_lth_count + 1]
    ELSE IF m_lth_state = HIGH
         THEN [r |-> 0, state |-> LOW, count |-> 1]
         ELSE [r |-> 0, state |-> m_lth_state, count |-> m_lth_count + 1]

\* mutant: the window starts where the region ends
YOffset_NoBack(i, l) == i

\* y_offset = i - l_count
YOffset(i, l) == i - l

\* for (i = 0; i < e_count; i++) { l_count = low_to_high(a[i], limit);
\* pm = 0; if (l_count >= MIN_FB_LEN) { y_offset = i - l_count; y_len = ...;
\* loff = freq_detect(s + y_offset, y_len, &pm); if (pm > MIN_PM) break; } }
\* ratio: the peak-to-mean ratio freq_detect finds
Walk(ratio) ==
    /\ spc = "walk"
    /\ IF e_i >= Len(m_e_cb)
       THEN /\ spc' = "finish"
            /\ UNCHANGED <<m_lth_count, m_lth_state, e_i, l_count, pm, loff,
                           evaluated>>
       ELSE LET edge == low_to_high(AboveLimit(m_e_cb[e_i + 1], e_sum,
                                               Len(m_e_cb)))
            IN  /\ l_count' = edge.r
                /\ m_lth_state' = edge.state
                /\ m_lth_count' = edge.count
                /\ IF edge.r >= MIN_FB_LEN
                   THEN LET y_offset == YOffset(e_i, edge.r)
                            y_len == MIN(edge.r, m_fcch_burst_len)
                        IN  /\ loff' = Freq(y_offset)
                            /\ pm' = ratio
                            /\ evaluated' =
                                  Append(evaluated,
                                         [i |-> e_i,
                                          y_offset |-> y_offset,
                                          y_len |-> y_len,
                                          l_count |-> edge.r,
                                          pm |-> ratio])
                            /\ IF Gt(ratio, MIN_PM)
                               THEN spc' = "finish" /\ UNCHANGED e_i
                               ELSE spc' = "walk" /\ e_i' = e_i + 1
                   ELSE /\ pm' = 0
                        /\ e_i' = e_i + 1
                        /\ spc' = "walk"
                        /\ UNCHANGED <<loff, evaluated>>
    /\ UNCHANGED <<s_len, stale, s_done, m_x_cb, m_y_cb, m_e_cb, e_batch, e_sum, m_w,
                   m_e, m_G, scan_ret, offset_out, consumed_out, nne_ret,
                   others>>

\* mutant: the filter starts afresh after every scan
Flushed_ResetFilter ==
    /\ m_e_cb' = <<>> /\ m_x_cb' = 0 /\ m_y_cb' = 0
    /\ m_w' = 0 /\ m_e' = 0 /\ m_G' = "G"

\* m_e_cb->flush(); m_x_cb->flush(); m_y_cb->flush()
Flushed ==
    /\ m_e_cb' = <<>> /\ m_x_cb' = 0 /\ m_y_cb' = 0
    /\ UNCHANGED <<m_w, m_e, m_G>>

\* the flushes; if (pm <= MIN_PM) return 0; if (offset) *offset = loff;
\* return 1
ScanFinish ==
    /\ spc = "finish"
    /\ Flushed
    /\ IF Le(pm, MIN_PM)
       THEN scan_ret' = <<0>> /\ UNCHANGED offset_out
       ELSE scan_ret' = <<1>> /\ offset_out' = <<loff>>
    /\ spc' = "idle"
    /\ UNCHANGED <<s_len, stale, s_done, e_batch, e_sum, m_lth_count, m_lth_state,
                   e_i, l_count, pm, loff, evaluated, consumed_out, nne_ret,
                   others>>

\* the steps of a scan that has been called
ScanRuns ==
    \/ ScanWrite
    \/ \E E_ok \in BOOLEAN, err \in Errors : NlmsStep(E_ok, err)
    \/ ScanTail
    \/ \E ratio \in Ratios : Walk(ratio)
    \/ ScanFinish

DetectorNext ==
    \/ \E n \in 0..MaxScanLen : ScanCall(n)
    \/ ScanRuns

DetectorSpec == DetectorInit /\ [][DetectorNext]_vars

\* scan runs on: it is not held up between its steps
DetectorLiveSpec == DetectorSpec /\ WF_vars(ScanRuns)

----------------------------------------------------------------------------
(* The claims about fcch_detector *)

\* scan has returned and has not been called again
ScanReturned == spc = "idle" /\ scan_ret # <<>>

\* C25: after every call of scan has returned, whatever it found and
\* whatever the length given, the sample ring, the output ring and the error
\* ring are empty
C25_RingsEmptyAfterScan ==
    ScanReturned => m_x_cb = 0 /\ m_y_cb = 0 /\ m_e_cb = <<>>

\* what scan may be seen to have done once it has returned
ScanOutcome ==
    /\ consumed_out = <<s_len>>
    /\ s_done = s_len
    /\ scan_ret \in {<<0>>, <<1>>}
    /\ scan_ret = <<1>> <=> offset_out # <<>>

\* C26: scan returns for every length, having written every sample to the
\* sample ring and reported consumed = len, with 1 (and the offset stored)
\* or 0 (and no offset stored)
C26_TerminatesConsumesAll ==
    /\ [](ScanReturned => ScanOutcome)
    /\ (spc # "idle") ~> ScanReturned

\* a scan of more samples than the sample ring takes at once has returned 1
C26_Witness ==
    /\ ScanReturned
    /\ s_len > XBufLen
    /\ scan_ret = <<1>>
    /\ consumed_out = <<s_len>>

\* region k of those given to freq_detect was accepted
Accepted(k) == Gt(evaluated[k].pm, MIN_PM)

\* C27: scan returns 1 exactly when a low-error region of length at least
\* MIN_FB_LEN has a peak-to-mean ratio above MIN_PM; the offset it stores is
\* that of the first such region, no shorter region is given to freq_detect,
\* and no region after the first accepted one is
C27_FoundIffAccepted ==
    ScanReturned =>
       /\ scan_ret = <<1>> <=> \E k \in DOMAIN evaluated : Accepted(k)
       /\ \A k \in DOMAIN evaluated :
             /\ evaluated[k].l_count >= MIN_FB_LEN
             /\ Accepted(k) =>
                   /\ k = Len(evaluated)
                   /\ offset_out = <<Freq(evaluated[k].y_offset)>>

\* the filter's state
filter == <<m_w, m_e, m_G>>

\* C28: but for a step of the filter, nothing changes the weights, the
\* running error power or the gain after construction: not the call of scan,
\* not the flushes, not low_to_high_init; so the next scan starts with what
\* the last one left
C28_FilterCarriesOver ==
    [][~(spc = "nlms" /\ m_x_cb >= m_w_len + m_D) => filter' = filter]_vars

\* a scan has been called on a detector whose filter earlier scans adapted
C28_Witness ==
    /\ spc = "write" /\ s_done = 0
    /\ m_w # 0 /\ m_e # 0 /\ m_G = "1/E"
    /\ m_x_cb = 0 /\ m_e_cb = <<>>

\* error k of the error ring is above the limit
Above(k) == AboveLimit(m_e_cb[k], e_sum, Len(m_e_cb))

\* the number of errors at or below the limit that end at error k
RECURSIVE LowRun(_)
LowRun(k) == IF k = 0 \/ Above(k) THEN 0 ELSE 1 + LowRun(k - 1)

\* C29: from HIGH with count 0, low_to_high returns a non-zero value only
\* for an error above the limit that follows one at or below it, and then the
\* exact number of errors at or below the limit that came just before; every
\* other call returns 0 (so a run is returned once, at its end)
C29_EdgeDetector ==
    [][spc = "walk" /\ e_i < Len(m_e_cb) =>
          l_count' = IF Above(e_i + 1) THEN LowRun(e_i) ELSE 0]_vars

\* a low run that began after a high error has been returned
C29_Witness ==
    /\ spc = "walk"
    /\ e_i >= 3
    /\ l_count = LowRun(e_i - 1) /\ l_count > 0
    /\ l_count < e_i - 1

\* C30: next_norm_error makes a step only with m_w_len + m_D samples or more
\* in the sample ring; with fewer it returns how many are missing, a
\* positive number, and changes nothing.  A step takes one sample from the
\* sample ring and adds one to the output ring (which drops its oldest when
\* full)
C30_NlmsStep ==
    [][spc = "nlms" =>
          IF m_x_cb >= m_w_len + m_D
          THEN /\ nne_ret' = <<0>>
               /\ m_x_cb' = m_x_cb - 1
               /\ m_y_cb' = IF m_y_cb < YBufLen THEN m_y_cb + 1 ELSE YBufLen
          ELSE /\ nne_ret' = <<m_w_len + m_D - m_x_cb>>
               /\ nne_ret'[1] > 0
               /\ UNCHANGED <<m_x_cb, m_y_cb, filter>>]_vars

\* steps were made, the last on a full output ring, and then one refused
C30_Witness ==
    /\ spc = "write"
    /\ nne_ret # <<>> /\ nne_ret # <<0>>
    /\ m_y_cb = YBufLen
    /\ m_x_cb = m_w_len + m_D - 1

\* the filter's group delay: x[n + m_D], the sample a step predicts, lies
\* n + m_D = m_w_len - 1 + m_D samples behind the head of the sample ring
Delay == m_w_len - 1 + m_D

\* the index in scan's input s of x[j], sample j of the sample ring (below 0
\* for a sample an earlier call left there)
Position(j) == s_done - m_x_cb + j

\* the normalised errors this scan has made so far
ErrorsMade == Len(m_e_cb) + Len(e_batch)

\* C31: a scan of len samples that starts with empty rings writes
\* max(0, len - Delay) errors to the error ring; error k is that of the
\* prediction of input sample k + Delay; and the samples given to
\* freq_detect for a region of l errors ending at error i are the input
\* samples that belong to the errors i - l onwards
C31_Alignment ==
    stale = 0 =>
       /\ spc = "tail" =>
             ErrorsMade = IF s_len > Delay THEN s_len - Delay ELSE 0
       /\ spc \in {"walk", "finish"} => Len(m_e_cb) = s_len - Delay
       /\ spc = "nlms" /\ Missing(m_x_cb) = 0 =>
             Position(Delay) = ErrorsMade + Delay
       /\ \A k \in DOMAIN evaluated :
             evaluated[k].y_offset =
                (evaluated[k].i - evaluated[k].l_count) + Delay

\* C33: every window given to freq_detect lies inside scan's input:
\* 0 <= y_offset and y_offset + y_len <= s_len, whatever the length, the
\* errors, and the samples an earlier call left in the sample ring
C33_WindowInsideInput ==
    \A k \in DOMAIN evaluated :
       /\ evaluated[k].y_offset >= 0
       /\ evaluated[k].y_offset + evaluated[k].y_len <= s_len

\* a scan that found the sample ring as full as a call can leave it has
\* given freq_detect a region that ends at its last error
C33_Witness ==
    /\ spc \in {"walk", "finish"}
    /\ stale = m_w_len + m_D - 1
    /\ evaluated # <<>>
    /\ evaluated[Len(evaluated)].i = Len(m_e_cb) - 1
    /\ evaluated[Len(evaluated)].i = s_len - 1

\* C34: a run of low errors that lasts to the end of the error ring is not
\* returned by low_to_high and so not given to freq_detect: every region
\* evaluated is the low run before an error above the limit, and scan
\* returns 1 only having evaluated such a region
C34_TrailingRunNotEvaluated ==
    /\ spc \in {"walk", "finish"} =>
          \A k \in DOMAIN evaluated :
             /\ evaluated[k].i < Len(m_e_cb)
             /\ Above(evaluated[k].i + 1)
             /\ evaluated[k].l_count = LowRun(evaluated[k].i)
    /\ ScanReturned /\ scan_ret = <<1>> => evaluated # <<>>

\* the walk has ended on a low run long enough for an FCCH, the only one of
\* this scan, and nothing was evaluated
C34_Witness ==
    /\ spc = "finish"
    /\ e_i = Len(m_e_cb)
    /\ LowRun(Len(m_e_cb)) >= MIN_FB_LEN
    /\ evaluated = <<>>

----------------------------------------------------------------------------
(* The cursors of the ring *)

\* C32: after every completed call of write (any length, either policy),
\* read, purge and flush the cursors are back in range: r < S and w < 2S
C32_CursorsBounded ==
    ~crashed => cb.m_r < cb.m_buf_size /\ cb.m_w < 2 * cb.m_buf_size

----------------------------------------------------------------------------
(* The two threads of the source *)

\* this step is m_resampler->reset(), called by tune or by start
Resets ==
    \/ cpc = "tune" /\ tune_ret' = <<0>>
    \/ cpc = "start" /\ cpc' = "start_rx"

\* the callback has found streaming on and has not yet returned from
\* m_resampler->process
InProcess == ppc = "process"

\* C35: the resampler is never reset while the callback is in process() on
\* it: tune and start on the consumer's thread and the callback on the
\* driver's never use the resampler at the same time
C35_NoResetDuringProcess == [][Resets => ~InProcess]_vars

\* c0_detect's use of the source for one channel, with the driver's thread
\* running: start, then tune, flush, fill, and the peek whose span is
\* measured or scanned
RetuneNext ==
    \/ Callback
    \/ ProducerRuns
    \/ tune_ret = <<>> /\ ~streaming /\ Start
    \/ ConsumerRuns
    \/ tune_ret = <<>> /\ streaming /\ \E f \in Freqs : TuneCall(f)
    \/ \E r \in {"HYDRASDR_SUCCESS", "HYDRASDR_ERROR"} : TuneSetFreq(r)
    \/ tune_ret = <<0>> /\ ~held /\ SourceFlushLock
    \/ SourceFlush
    \/ SourceFlushCount
    \/ flushed /\ ~held /\ \E n \in 1..capacity(cb) : Fill(n)
    \/ fill_ret = <<0>> /\ overruns_out = <<0>> /\ SourcePeekLock
    \/ SourcePeek

RetuneSpec == SourceInit /\ [][RetuneNext]_vars

\* C36: after tune(f), flush() and a fill(n) that returned 0 with no
\* overruns, every sample of the span peeked for the measurement or the scan
\* came through the resampler after the tune: a callback that was under way
\* puts no earlier sample into the ring after the flush
C36_SpanAfterRetune ==
    held => \A k \in 1..b_len :
               ItemAt(cb, b_ptr + (k - 1) * cb.m_item_size)[1][1] >= tuned

\* this step is the callback's cb->write
ProducerWrites == ppc = "write" /\ ppc' = "account"

\* item k of the span the consumer holds, as ring c shows it at the span's
\* address
SpanItem(c, k) == ItemAt(c, b_ptr + (k - 1) * c.m_item_size)

\* C37: while the consumer holds a span that peek returned on the sample
\* ring and has not purged or flushed, a write by the callback changes no
\* item of the span and does not move its start: it appends into free space
\* and does not wind the cursors back
C37_SpanStable ==
    [][held /\ ProducerWrites =>
          /\ cb'.m_r = cb.m_r
          /\ cb.m_r % cb.m_buf_size = b_ptr
          /\ cb'.m_w >= cb.m_w
          /\ \A k \in 1..b_len : SpanItem(cb', k) = SpanItem(cb, k)]_vars

\* the callback has appended samples behind a span the consumer holds, its
\* write wrapping around the end of the buffer
C37_Witness ==
    /\ held /\ b_len > 0
    /\ ppc = "account" /\ written > 0
    /\ data_available(cb) = b_len + written
    /\ cb.m_w > cb.m_buf_size

----------------------------------------------------------------------------
(* offset_detect's loop over the running source: start, flush, then fill,  *)
(* peek, scan, purge, with the callback delivering in between.             *)

\* s_len = ceil((12 * 8 * 156.25 + 156.25) * sps): the frame asked of fill
frame_len == 1

\* scan: if (consumed) *consumed = len, len being all of the input
ScanConsumed(len) == len

OffsetConsumed_Frame(found, len) ==
    LET consumed == ScanConsumed(len)
    IN  IF ~found THEN frame_len ELSE consumed

\* if (l->scan(cbuf, b_len, &offset, &consumed)) ... else { if (consumed == 0)
\* consumed = s_len; }: what offset_detect gives to purge
OffsetConsumed(found, len) ==
    LET consumed == ScanConsumed(len)
    IN  IF ~found /\ consumed = 0 THEN frame_len ELSE consumed

OffsetLoopNext ==
    \/ Callback
    \/ ProducerRuns
    \/ ~streaming /\ ~flushed /\ prev = 0 /\ Start
    \/ ConsumerRuns
    \/ streaming /\ ~flushed /\ ~held /\ prev = 0 /\ fill_ret = <<>>
          /\ SourceFlushLock
    \/ fill_ret = <<0>> /\ overruns_out # <<0>> /\ SourceFlushLock
    \/ SourceFlush
    \/ SourceFlushCount
    \/ (flushed \/ prev > 0) /\ ~held /\ fill_ret = <<>> /\ Fill(frame_len)
    \/ fill_ret = <<0>> /\ overruns_out = <<0>> /\ SourcePeekLock
    \/ SourcePeek
    \/ SpanRead
    \/ \E found \in BOOLEAN : SourcePurgeLock(OffsetConsumed(found, b_len))
    \/ SourcePurge

OffsetLoopSpec == SourceInit /\ [][OffsetLoopNext]_vars

\* this step is offset_detect's cb->purge(consumed)
Purges == cpc = "purge" /\ cpc' = "idle"

\* the ring's oldest item
Oldest(c) == ItemAt(c, peek(c).ptr)

\* C38: what offset_detect purges is exactly the b_len samples it gave to
\* scan: the samples the callback appended since the peek all stay, and the
\* oldest of them is the one that followed the span
C38_PurgesTheSpan ==
    [][Purges =>
          /\ span_i = b_len
          /\ purge(cb, span_i).ret = b_len
          /\ data_available(cb') = data_available(cb) - b_len
          /\ data_available(cb) > b_len =>
                Oldest(cb') = ItemAt(cb, b_ptr + b_len * cb.m_item_size)]_vars

\* a purge has left in the ring the samples that arrived during the scan of
\* a span longer than the frame
C38_Witness ==
    /\ cpc = "idle" /\ ~held /\ fill_ret = <<>>
    /\ prev > frame_len
    /\ data_available(cb) > 0
    /\ Oldest(cb)[1][1] = prev + 1

----------------------------------------------------------------------------
(* Locking of the two threads *)

\* the consumer stands at the unique_lock of fill (or at the re-lock that
\* ends wait_for) and data_mutex is taken: it waits
ConsumerWaits == cpc = "fill_lock" /\ data_mutex # "free"

\* the consumer is inside flush, peek or purge of the ring, past the
\* lock_guard: its next step leaves the call and frees the ring's mutex
InRingCall == cpc \in {"flush", "peek", "purge"}

====
